---- MODULE Spec2Model ----
(***************************************************************************)
(* A model of jsonport: the recursive-descent parser (parse, parseObject,  *)
(* parseArray, parseString, parseNumber, parseBool, parseNull, unquote),   *)
(* the entry point Unmarshal, and the accessor layer of Json (Member,      *)
(* Element, Get, EachOf, the scalar conversions and the array              *)
(* conversions).                                                           *)
(*                                                                         *)
(* Bytes are integers 0..255.  A Go string or []byte is a sequence of      *)
(* bytes; Go's 0-based b[i] is At(b, i) and b[i:] is From(b, i).           *)
(* A Go error is a non-empty sequence of message parts; nil is << >>.      *)
(***************************************************************************)
EXTENDS Integers, Sequences, FiniteSets, TLC

VARIABLES
    data,   \* the input handed to Unmarshal
    pc,     \* "start": nothing decoded; "returned": a call returned; "idle"; "panic"
    j,      \* the Json value the caller holds
    uerr,   \* the error Unmarshal returned
    op      \* the last operation: its name, receiver, arguments and result

vars == <<data, pc, j, uerr, op>>

----------------------------------------------------------------------------
(* Bytes *)

Printable ==
    << " ", "!", "\"", "#", "$", "%", "&", "'", "(", ")", "*", "+", ",", "-", ".", "/",
       "0", "1", "2", "3", "4", "5", "6", "7", "8", "9", ":", ";", "<", "=", ">", "?",
       "@", "A", "B", "C", "D", "E", "F", "G", "H", "I", "J", "K", "L", "M", "N", "O",
       "P", "Q", "R", "S", "T", "U", "V", "W", "X", "Y", "Z", "[", "\\", "]", "^", "_",
       "grave", "a", "b", "c", "d", "e", "f", "g", "h", "i", "j", "k", "l", "m", "n", "o",
       "p", "q", "r", "s", "t", "u", "v", "w", "x", "y", "z", "{", "|", "}", "~" >>

\* the byte of a printable ASCII character
Ord == [c \in {Printable[i] : i \in DOMAIN Printable} |->
            31 + CHOOSE i \in DOMAIN Printable : Printable[i] = c]

\* the bytes of a text given character by character
Bytes(cs) == [i \in DOMAIN cs |-> Ord[cs[i]]]

\* fmt's %c of a byte
Chr(c) == IF c >= 32 /\ c <= 126 THEN Printable[c - 31] ELSE ToString(c)

At(b, i) == b[i + 1]
From(b, i) == SubSeq(b, i + 1, Len(b))
Upto(b, i) == SubSeq(b, 1, i)

HasPrefix(b, p) == Len(b) >= Len(p) /\ SubSeq(b, 1, Len(p)) = p

----------------------------------------------------------------------------
(* Errors *)

Nil == << >>

ErrMoreBytes == << "not all bytes unmarshaled" >>

Errorf(msg, err) == << msg >> \o err

----------------------------------------------------------------------------
(* Type and Json *)

Type == { "INVALID", "OBJECT", "ARRAY", "STRING", "NUMBER", "BOOL", "NULL" }

\* the dynamic type of the payload v and its value
VNil == [kind |-> "nil", val |-> 0]
VBool(x) == [kind |-> "bool", val |-> x]
VString(s) == [kind |-> "string", val |-> s]
VNumber(s) == [kind |-> "Number", val |-> s]
VArr(a) == [kind |-> "[]Json", val |-> a]
VMap(m) == [kind |-> "map[string]Json", val |-> m]

\* Json{}: Go's zero value
Json == [atoi |-> FALSE, tob |-> FALSE, err |-> Nil, v |-> VNil, tp |-> "INVALID"]

\* Json{err: e}
JsonErr(e) == [Json EXCEPT !.err = e]

\* Json{v: x, tp: t}
JsonOf(x, t) == [Json EXCEPT !.v = x, !.tp = t]

zero == Bytes(<< "0" >>)

----------------------------------------------------------------------------
(* Scanners *)

jsontrue == Bytes(<< "t", "r", "u", "e" >>)
jsonfalse == Bytes(<< "f", "a", "l", "s", "e" >>)
jsonnull == Bytes(<< "n", "u", "l", "l" >>)

\* ' ', '\t', '\n', '\r', '\v', '\f'
isSpace(b) == b \in { 32, 9, 10, 13, 11, 12 }

RECURSIVE skipSpaceFrom(_, _)
skipSpaceFrom(b, i) ==
    IF i < Len(b) /\ isSpace(At(b, i)) THEN skipSpaceFrom(b, i + 1) ELSE i

skipSpace(b) == skipSpaceFrom(b, 0)

\* strconv.ParseUint(s, 16, 64) of four bytes; -1 for an error
HexVal(c) ==
    IF c >= Ord["0"] /\ c <= Ord["9"] THEN c - Ord["0"]
    ELSE IF c >= Ord["a"] /\ c <= Ord["f"] THEN c - Ord["a"] + 10
    ELSE IF c >= Ord["A"] /\ c <= Ord["F"] THEN c - Ord["A"] + 10
    ELSE -1

getu4(s) ==
    IF Len(s) < 6 \/ At(s, 0) # Ord["\\"] \/ At(s, 1) # Ord["u"] THEN -1
    ELSE LET value(h) ==
                 IF \E k \in 1..4 : h[k] < 0 THEN -1
                 ELSE h[1] * 4096 + h[2] * 256 + h[3] * 16 + h[4]
         IN  value([k \in 1..4 |-> HexVal(At(s, k + 1))])

ReplacementChar == 65533

\* utf16.IsSurrogate
IsSurrogate(r) == r >= 55296 /\ r < 57344

\* utf16.DecodeRune
DecodeRune16(r1, r2) ==
    IF r1 >= 55296 /\ r1 < 56320 /\ r2 >= 56320 /\ r2 < 57344
    THEN (r1 - 55296) * 1024 + (r2 - 56320) + 65536
    ELSE ReplacementChar

\* utf8.EncodeRune: the bytes of a rune
EncodeRune(r0) ==
    LET encode(r) ==
            IF r < 128 THEN << r >>
            ELSE IF r < 2048 THEN << 192 + (r \div 64), 128 + (r % 64) >>
            ELSE IF r < 65536
                 THEN << 224 + (r \div 4096), 128 + ((r \div 64) % 64), 128 + (r % 64) >>
            ELSE << 240 + (r \div 262144), 128 + ((r \div 4096) % 64),
                    128 + ((r \div 64) % 64), 128 + (r % 64) >>
    IN  encode(IF r0 < 0 \/ r0 > 1114111 \/ IsSurrogate(r0) THEN ReplacementChar ELSE r0)

UnquoteFail == [t |-> << >>, ok |-> FALSE]

\* the decoding loop of unquoteBytes: r is the read position in s, w the bytes written
RECURSIVE unquoteLoop(_, _, _)
unquoteLoop(s, r, w) ==
    IF r >= Len(s) THEN [t |-> w, ok |-> TRUE]
    ELSE LET c == At(s, r) IN
        IF c = Ord["\\"] THEN
            IF r + 1 >= Len(s) THEN UnquoteFail
            ELSE LET d == At(s, r + 1) IN
                IF d \in { Ord["\""], Ord["\\"], Ord["/"], Ord["'"] }
                    THEN unquoteLoop(s, r + 2, Append(w, d))
                ELSE IF d = Ord["b"] THEN unquoteLoop(s, r + 2, Append(w, 8))
                ELSE IF d = Ord["f"] THEN unquoteLoop(s, r + 2, Append(w, 12))
                ELSE IF d = Ord["n"] THEN unquoteLoop(s, r + 2, Append(w, 10))
                ELSE IF d = Ord["r"] THEN unquoteLoop(s, r + 2, Append(w, 13))
                ELSE IF d = Ord["t"] THEN unquoteLoop(s, r + 2, Append(w, 9))
                ELSE IF d = Ord["u"] THEN
                    LET pair(dec) ==
                            IF dec # ReplacementChar
                            THEN unquoteLoop(s, r + 12, w \o EncodeRune(dec))
                            ELSE unquoteLoop(s, r + 6, w \o EncodeRune(ReplacementChar))
                        escape(rr) ==
                            IF rr < 0 THEN UnquoteFail
                            ELSE IF IsSurrogate(rr)
                                THEN pair(DecodeRune16(rr, getu4(From(s, r + 6))))
                            ELSE unquoteLoop(s, r + 6, w \o EncodeRune(rr))
                    IN  escape(getu4(From(s, r)))
                ELSE UnquoteFail
        ELSE IF c = Ord["\""] \/ c < 32 THEN UnquoteFail
        ELSE IF c < 128 THEN unquoteLoop(s, r + 1, Append(w, c))
        \* a byte that is not ASCII: the inputs of this model hold no multi-byte
        \* sequence, so utf8.DecodeRune yields RuneError of size 1
        ELSE unquoteLoop(s, r + 1, w \o EncodeRune(ReplacementChar))

unquoteBytes(s) ==
    IF Len(s) < 2 \/ At(s, 0) # Ord["\""] \/ At(s, Len(s) - 1) # Ord["\""]
    THEN UnquoteFail
    ELSE unquoteLoop(SubSeq(s, 2, Len(s) - 1), 0, << >>)

unquote(s) == unquoteBytes(s)

RECURSIVE parseStringLoop_prevByte(_, _, _)
\* the scanning loop with the slip of taking a quote for escaped whenever the byte
\* before it is a backslash
parseStringLoop_prevByte(b, i, quoted) ==
    IF i >= Len(b)
    THEN [s |-> << >>, i |-> i, err |-> << "STRING: end of string err" >>]
    ELSE IF At(b, i) = Ord["\""] /\ At(b, i - 1) # Ord["\\"] THEN
        LET unquoted(u) ==
                IF ~u.ok THEN [s |-> << >>, i |-> i, err |-> << "STRING: unquote err" >>]
                ELSE [s |-> u.t, i |-> i + 1, err |-> Nil]
        IN  unquoted(unquote(Upto(b, i + 1)))
    ELSE parseStringLoop_prevByte(b, i + 1, quoted)

RECURSIVE parseStringLoop(_, _, _)
parseStringLoop(b, i, quoted) ==
    IF i >= Len(b)
    THEN [s |-> << >>, i |-> i, err |-> << "STRING: end of string err" >>]
    ELSE IF ~quoted /\ At(b, i) = Ord["\\"] THEN parseStringLoop(b, i + 1, TRUE)
    ELSE IF ~quoted /\ At(b, i) = Ord["\""] THEN
        LET unquoted(u) ==
                IF ~u.ok THEN [s |-> << >>, i |-> i, err |-> << "STRING: unquote err" >>]
                ELSE [s |-> u.t, i |-> i + 1, err |-> Nil]
        IN  unquoted(unquote(Upto(b, i + 1)))
    ELSE parseStringLoop(b, i + 1, FALSE)

\* b is never empty where parseString is called
parseString(b) ==
    IF At(b, 0) # Ord["\""]
    THEN [s |-> << >>, i |-> 0, err |-> << "STRING: expect '\"' found ", Chr(At(b, 0)) >>]
    ELSE parseStringLoop(b, 1, FALSE)

IsNumberByte(c) ==
    \/ c >= Ord["0"] /\ c <= Ord["9"]
    \/ c \in { Ord["."], Ord["e"], Ord["E"], Ord["+"], Ord["-"] }

RECURSIVE parseNumberLoop(_, _)
parseNumberLoop(b, i) ==
    IF i < Len(b) /\ IsNumberByte(At(b, i)) THEN parseNumberLoop(b, i + 1) ELSE i

parseNumber(b) ==
    IF Len(b) = 0 THEN [n |-> zero, i |-> 0, err |-> << "parse EOF err" >>]
    ELSE IF At(b, 0) # Ord["-"] /\ (At(b, 0) < Ord["0"] \/ At(b, 0) > Ord["9"])
    THEN [n |-> zero, i |-> 0, err |-> << "Unknown type" >>]
    ELSE LET i == parseNumberLoop(b, 0) IN [n |-> Upto(b, i), i |-> i, err |-> Nil]

parseBool(b) ==
    IF HasPrefix(b, jsontrue) THEN [b |-> TRUE, i |-> Len(jsontrue), err |-> Nil]
    ELSE IF HasPrefix(b, jsonfalse) THEN [b |-> FALSE, i |-> Len(jsonfalse), err |-> Nil]
    ELSE [b |-> FALSE, i |-> 0, err |-> << "BOOL: not true nor false" >>]

parseNull(b) ==
    IF HasPrefix(b, jsonnull) THEN [i |-> Len(jsonnull), err |-> Nil]
    ELSE [i |-> 0, err |-> << "NULL: parse err" >>]

----------------------------------------------------------------------------
(* Parser *)

\* the states of parseObject and of parseArray
stateMemberName == "stateMemberName"
stateColon == "stateColon"
stateMemberValue == "stateMemberValue"
stateValue == "stateValue"
stateDone == "stateDone"

\* m[k] = x with the slip of keeping the value a name already has
MapPut_keepsFirst(m, k, x) ==
    [n \in DOMAIN m \cup { k } |-> IF n \in DOMAIN m THEN m[n] ELSE x]

\* m[k] = x
MapPut(m, k, x) == [n \in DOMAIN m \cup { k } |-> IF n = k THEN x ELSE m[n]]

RECURSIVE parse(_), parseObjectLoop(_, _, _, _, _), parseArrayLoop(_, _, _, _)

\* the for loop of parseObject
parseObjectLoop(b, i, state, m, k) ==
    IF i >= Len(b) THEN [m |-> << >>, i |-> i, err |-> << "OBJECT: internal err" >>]
    ELSE IF isSpace(At(b, i)) THEN parseObjectLoop(b, i + 1, state, m, k)
    ELSE IF state = stateMemberName THEN
        LET name(r) ==
                IF r.err # Nil
                THEN [m |-> << >>, i |-> i, err |-> Errorf("OBJECT member.name: ", r.err)]
                ELSE parseObjectLoop(b, i + r.i, stateColon, m, r.s)
        IN  name(parseString(From(b, i)))
    ELSE IF state = stateColon THEN
        IF At(b, i) # Ord[":"]
        THEN [m |-> << >>, i |-> i, err |-> << "OBJECT: expect ':' found ", Chr(At(b, i)) >>]
        ELSE parseObjectLoop(b, i + 1, stateMemberValue, m, k)
    ELSE IF state = stateMemberValue THEN
        LET value(r) ==
                IF r.err # Nil
                THEN [m |-> << >>, i |-> i, err |-> Errorf("OBJECT member.value: ", r.err)]
                ELSE parseObjectLoop(b, i + r.i, stateDone, MapPut(m, k, r.j), k)
        IN  value(parse(From(b, i)))
    ELSE \* stateDone
        IF At(b, i) = Ord[","] THEN parseObjectLoop(b, i + 1, stateMemberName, m, k)
        ELSE IF At(b, i) = Ord["}"] THEN [m |-> m, i |-> i + 1, err |-> Nil]
        ELSE [m |-> << >>, i |-> i,
              err |-> << "OBJECT: expect ',' or '}' found ", Chr(At(b, i)) >>]

parseObject(b) ==
    IF Len(b) = 0 THEN [m |-> << >>, i |-> 0, err |-> << "OBJECT: expect '{' found EOF" >>]
    ELSE IF At(b, 0) # Ord["{"]
    THEN [m |-> << >>, i |-> 0, err |-> << "OBJECT: expect '{' found ", Chr(At(b, 0)) >>]
    ELSE IF Len(b) < 2
    THEN [m |-> << >>, i |-> 1, err |-> << "OBJECT: expect '}' found EOF" >>]
    ELSE IF At(b, 1) = Ord["}"] THEN [m |-> << >>, i |-> 2, err |-> Nil]
    ELSE parseObjectLoop(b, 1, stateMemberName, << >>, << >>)

\* the for loop of parseArray
parseArrayLoop(b, i, state, a) ==
    IF i >= Len(b) THEN [a |-> << >>, i |-> i, err |-> << "ARRAY: internal err" >>]
    ELSE IF isSpace(At(b, i)) THEN parseArrayLoop(b, i + 1, state, a)
    ELSE IF state = stateValue THEN
        LET value(r) ==
                IF r.err # Nil
                THEN [a |-> a, i |-> i, err |-> Errorf("ARRAY value: ", r.err)]
                ELSE parseArrayLoop(b, i + r.i, stateDone, Append(a, r.j))
        IN  value(parse(From(b, i)))
    ELSE \* stateDone
        IF At(b, i) = Ord[","] THEN parseArrayLoop(b, i + 1, stateValue, a)
        ELSE IF At(b, i) = Ord["]"] THEN [a |-> a, i |-> i + 1, err |-> Nil]
        ELSE [a |-> << >>, i |-> i,
              err |-> << "ARRAY: expect ',' or ']' found ", Chr(At(b, i)) >>]

parseArray(b) ==
    IF Len(b) = 0 THEN [a |-> << >>, i |-> 0, err |-> << "ARRAY: expect '[' found EOF" >>]
    ELSE IF At(b, 0) # Ord["["]
    THEN [a |-> << >>, i |-> 0, err |-> << "ARRAY: expect '[' found ", Chr(At(b, 0)) >>]
    ELSE IF Len(b) < 2
    THEN [a |-> << >>, i |-> 1, err |-> << "ARRAY: expect ']' found EOF" >>]
    ELSE IF At(b, 1) = Ord["]"] THEN [a |-> << >>, i |-> 2, err |-> Nil]
    ELSE parseArrayLoop(b, 1, stateValue, << >>)

\* what parse returns when a sub-parser failed: the Json carrying err, and i, the
\* offset of the value's first byte
ParseFail(i, err) == [j |-> JsonErr(err), i |-> i, err |-> err, panic |-> FALSE]

ParseOk(i, v, tp) == [j |-> JsonOf(v, tp), i |-> i, err |-> Nil, panic |-> FALSE]

\* p[0] of an empty p is an index out of range: the goroutine panics
\* the result r of a sub-parser as the result of parse: the payload v with the tag
\* tp, or the error
parsed(i, r, v, tp) ==
    IF r.err # Nil THEN ParseFail(i, r.err) ELSE ParseOk(i + r.i, v, tp)

\* p[0] of an empty p is an index out of range: the goroutine panics
parse(b) ==
    LET switch(i, p) ==
            IF Len(p) = 0 THEN [j |-> Json, i |-> i, err |-> Nil, panic |-> TRUE]
            ELSE IF At(p, 0) = Ord["{"] THEN
                LET object(r) == parsed(i, r, VMap(r.m), "OBJECT") IN object(parseObject(p))
            ELSE IF At(p, 0) = Ord["["] THEN
                LET array(r) == parsed(i, r, VArr(r.a), "ARRAY") IN array(parseArray(p))
            ELSE IF At(p, 0) = Ord["\""] THEN
                LET string(r) == parsed(i, r, VString(r.s), "STRING") IN string(parseString(p))
            ELSE IF At(p, 0) \in { Ord["t"], Ord["f"] } THEN
                LET bool(r) == parsed(i, r, VBool(r.b), "BOOL") IN bool(parseBool(p))
            ELSE IF At(p, 0) = Ord["n"] THEN parsed(i, parseNull(p), VNil, "NULL")
            ELSE LET num(r) == parsed(i, r, VNumber(r.n), "NUMBER") IN num(parseNumber(p))
        from(i) == switch(i, From(b, i))
    IN  from(skipSpace(b))

\* Unmarshal(data): the Json and the error it returns, or the panic of parse
Unmarshal(d) ==
    LET result(r) ==
            IF r.panic THEN [j |-> Json, err |-> Nil, panic |-> TRUE]
            ELSE IF r.err # Nil THEN [j |-> r.j, err |-> r.err, panic |-> FALSE]
            ELSE IF skipSpace(From(d, r.i)) + r.i # Len(d)
                THEN [j |-> r.j, err |-> ErrMoreBytes, panic |-> FALSE]
            ELSE [j |-> r.j, err |-> Nil, panic |-> FALSE]
    IN  result(parse(d))

\* DecodeFrom(r): b and rerr are what ioutil.ReadAll(r) returns
DecodeFrom(b, rerr) ==
    IF rerr # Nil THEN [j |-> Json, err |-> Nil, panic |-> FALSE]
    ELSE Unmarshal(b)

----------------------------------------------------------------------------
(* The skip engine *)

\* the whitespace test and scan of the skip engine
isspace(b) == isSpace(b)
skipspace(b) == skipSpace(b)

errJSONEOF == << "JSON: unexpect EOF" >>
errObjectEOF == << "OBJECT: unexpect EOF" >>

RECURSIVE jsonskip(_), jsonskipObjectLoop(_, _, _), jsonskipArrayLoop(_, _, _, _)

\* the for loop of jsonskipObject
jsonskipObjectLoop(b, i, state) ==
    IF i >= Len(b) THEN [i |-> i, err |-> errObjectEOF]
    ELSE IF isspace(At(b, i)) THEN jsonskipObjectLoop(b, i + 1, state)
    ELSE IF state = stateMemberName THEN
        LET name(r) ==
                IF r.err # Nil THEN [i |-> i, err |-> Errorf("OBJECT member.name: ", r.err)]
                ELSE jsonskipObjectLoop(b, i + r.i, stateColon)
        IN  name(parseString(From(b, i)))
    ELSE IF state = stateColon THEN
        IF At(b, i) # Ord[":"]
        THEN [i |-> i, err |-> << "OBJECT: expect ':' found ", Chr(At(b, i)) >>]
        ELSE jsonskipObjectLoop(b, i + 1, stateMemberValue)
    ELSE IF state = stateMemberValue THEN
        LET value(r) ==
                IF r.err # Nil THEN [i |-> i, err |-> Errorf("OBJECT member.value: ", r.err)]
                ELSE jsonskipObjectLoop(b, i + r.i, stateDone)
        IN  value(jsonskip(From(b, i)))
    ELSE \* stateDone
        IF At(b, i) = Ord[","] THEN jsonskipObjectLoop(b, i + 1, stateMemberName)
        ELSE IF At(b, i) = Ord["}"] THEN [i |-> i + 1, err |-> Nil]
        ELSE [i |-> i, err |-> << "OBJECT: expect ',' or '}' found ", Chr(At(b, i)) >>]

jsonskipObject(b) ==
    IF Len(b) = 0 THEN [i |-> 0, err |-> << "OBJECT: expect '{' found EOF" >>]
    ELSE IF At(b, 0) # Ord["{"]
    THEN [i |-> 0, err |-> << "OBJECT: expect '{' found ", Chr(At(b, 0)) >>]
    ELSE IF Len(b) < 2 THEN [i |-> 1, err |-> << "OBJECT: expect '}' found EOF" >>]
    ELSE IF At(b, 1) = Ord["}"] THEN [i |-> 2, err |-> Nil]
    ELSE jsonskipObjectLoop(b, 1, stateMemberName)

\* the for loop of jsonskipArray; pos counts the elements skipped
jsonskipArrayLoop(b, i, state, pos) ==
    IF i >= Len(b) THEN [i |-> i, err |-> << "ARRAY" >>]
    ELSE IF isspace(At(b, i)) THEN jsonskipArrayLoop(b, i + 1, state, pos)
    ELSE IF state = stateValue THEN
        LET value(r) ==
                IF r.err # Nil
                THEN [i |-> i, err |-> << "ARRAY: index: ", ToString(pos), " err: " >> \o r.err]
                ELSE jsonskipArrayLoop(b, i + r.i, stateDone, pos + 1)
        IN  value(jsonskip(From(b, i)))
    ELSE \* stateDone
        IF At(b, i) = Ord[","] THEN jsonskipArrayLoop(b, i + 1, stateValue, pos)
        ELSE IF At(b, i) = Ord["]"] THEN [i |-> i + 1, err |-> Nil]
        ELSE [i |-> i, err |-> << "ARRAY: expect ',' or ']' found ", Chr(At(b, i)) >>]

jsonskipArray(b) ==
    IF Len(b) = 0 THEN [i |-> 0, err |-> << "ARRAY: expect '[' found EOF" >>]
    ELSE IF At(b, 0) # Ord["["]
    THEN [i |-> 0, err |-> << "ARRAY: expect '[' found ", Chr(At(b, 0)) >>]
    ELSE IF Len(b) < 2 THEN [i |-> 1, err |-> << "ARRAY: expect ']' found EOF" >>]
    ELSE IF At(b, 1) = Ord["]"] THEN [i |-> 2, err |-> Nil]
    ELSE jsonskipArrayLoop(b, 1, stateValue, 0)

\* the result r of a scanner, with its offset counted from the start of the input
skipped(i, r) == [i |-> i + r.i, err |-> r.err]

\* jsonskip: the object and array cases return the count of the sub-scanner as it
\* is, without the leading whitespace i
jsonskip(b) ==
    LET switch(i, p) ==
            IF Len(p) = 0 THEN [i |-> 0, err |-> errJSONEOF]
            ELSE IF At(p, 0) = Ord["{"] THEN jsonskipObject(p)
            ELSE IF At(p, 0) = Ord["["] THEN jsonskipArray(p)
            ELSE IF At(p, 0) = Ord["\""] THEN skipped(i, parseString(p))
            ELSE IF At(p, 0) \in { Ord["t"], Ord["f"] } THEN skipped(i, parseBool(p))
            ELSE IF At(p, 0) = Ord["n"] THEN skipped(i, parseNull(p))
            ELSE skipped(i, parseNumber(p))
        from(i) == switch(i, From(b, i))
    IN  from(skipspace(b))

----------------------------------------------------------------------------
(* Number: the literal's text, converted on demand.                        *)
(* An int64 is [neg, mag] and a float64 is [neg, mant, exp], the value     *)
(* mant * 10^exp; mag and mant are decimal digit sequences without leading *)
(* zeros (and mant without trailing zeros), << 0 >> for zero.  The decimal *)
(* value stands for the nearest double: the literals of this model have at *)
(* most 15 significant digits or are integers, for which truncation and    *)
(* the comparisons below agree with those of the double.                   *)

IsDigit(c) == c >= Ord["0"] /\ c <= Ord["9"]

RECURSIVE DigitRun(_, _)
\* the number of digit bytes of s from the 0-based position i on
DigitRun(s, i) == IF i < Len(s) /\ IsDigit(At(s, i)) THEN 1 + DigitRun(s, i + 1) ELSE 0

DigitsOf(s) == [i \in DOMAIN s |-> s[i] - Ord["0"]]

RECURSIVE StripLeading(_)
StripLeading(ds) ==
    IF Len(ds) = 0 THEN << 0 >>
    ELSE IF Len(ds) > 1 /\ ds[1] = 0 THEN StripLeading(Tail(ds))
    ELSE ds

RECURSIVE TrailingZeros(_)
TrailingZeros(ds) ==
    IF Len(ds) > 1 /\ ds[Len(ds)] = 0 THEN 1 + TrailingZeros(Upto(ds, Len(ds) - 1)) ELSE 0

Zeros(n) == [i \in 1..n |-> 0]

RECURSIVE LexLess(_, _)
\* a < b for digit sequences of the same length
LexLess(a, b) ==
    IF Len(a) = 0 THEN FALSE
    ELSE IF a[1] # b[1] THEN a[1] < b[1]
    ELSE LexLess(Tail(a), Tail(b))

\* a < b for magnitudes without leading zeros
MagLess(a, b) == Len(a) < Len(b) \/ (Len(a) = Len(b) /\ LexLess(a, b))

\* 2^63 - 1, 2^63, and 2^63 - 512, from which a double rounds to 2^63
MaxInt64Mag == << 9,2,2,3,3,7,2,0,3,6,8,5,4,7,7,5,8,0,7 >>
MinInt64Mag == << 9,2,2,3,3,7,2,0,3,6,8,5,4,7,7,5,8,0,8 >>
RoundsUpMag == << 9,2,2,3,3,7,2,0,3,6,8,5,4,7,7,5,2,9,6 >>

I64(neg, mag) == [neg |-> neg /\ mag # << 0 >>, mag |-> mag]
MaxInt64 == I64(FALSE, MaxInt64Mag)
MinInt64 == I64(TRUE, MinInt64Mag)
I64Zero == I64(FALSE, << 0 >>)

F64(neg, mant, exp) ==
    LET m == StripLeading(mant)
        z == TrailingZeros(m)
    IN  IF m = << 0 >> THEN [neg |-> FALSE, mant |-> << 0 >>, exp |-> 0]
        ELSE [neg |-> neg, mant |-> Upto(m, Len(m) - z), exp |-> exp + z]
F64Zero == F64(FALSE, << 0 >>, 0)

NumError(fn, s, what) == << fn >> \o [i \in DOMAIN s |-> Chr(s[i])] \o << what >>

\* the length of the sign a literal starts with
SignLen(n) == IF Len(n) > 0 /\ At(n, 0) \in { Ord["+"], Ord["-"] } THEN 1 ELSE 0

\* Number.Int64: strconv.ParseInt(string(n), 10, 64)
Int64(n) ==
    LET range(neg, mag) ==
            IF neg /\ MagLess(MinInt64Mag, mag)
            THEN [i |-> MinInt64, err |-> NumError("strconv.ParseInt: parsing ", n, ": value out of range")]
            ELSE IF ~neg /\ MagLess(MaxInt64Mag, mag)
            THEN [i |-> MaxInt64, err |-> NumError("strconv.ParseInt: parsing ", n, ": value out of range")]
            ELSE [i |-> I64(neg, mag), err |-> Nil]
        digits(sl, nd) ==
            IF nd = 0 \/ sl + nd # Len(n)
            THEN [i |-> I64Zero, err |-> NumError("strconv.ParseInt: parsing ", n, ": invalid syntax")]
            ELSE range(sl = 1 /\ At(n, 0) = Ord["-"], StripLeading(DigitsOf(From(n, sl))))
        sign(sl) == digits(sl, DigitRun(n, sl))
    IN  sign(SignLen(n))

RECURSIVE DecimalOf(_)
\* the value of a short run of digits (an exponent)
DecimalOf(ds) == IF Len(ds) = 0 THEN 0 ELSE 10 * DecimalOf(Upto(ds, Len(ds) - 1)) + ds[Len(ds)]

\* the largest double is below 1.7976931348623158e308
MaxFloatMant == << 1,7,9,7,6,9,3,1,3,4,8,6,2,3,1,5,8 >>

\* the position of the decimal point: the value is in [10^(e-1), 10^e)
Magnitude(f) == Len(f.mant) + f.exp

FloatOverflows(f) ==
    /\ f.mant # << 0 >>
    /\ \/ Magnitude(f) > 309
       \/ /\ Magnitude(f) = 309
          /\ LET k == IF Len(f.mant) < Len(MaxFloatMant) THEN Len(f.mant) ELSE Len(MaxFloatMant)
                 a == Upto(f.mant, k) \o Zeros(Len(MaxFloatMant) - k)
             IN  ~LexLess(a, MaxFloatMant)

\* the exponent written with the digits ed: beyond six digits every value is out of
\* the range of a double
ExponentOf(ed, eneg) ==
    IF Len(ed) > 6 THEN (IF eneg THEN -1000000 ELSE 1000000)
    ELSE IF eneg THEN 0 - DecimalOf(ed) ELSE DecimalOf(ed)

\* Number.Float64: strconv.ParseFloat(string(n), 64), on decimal literals: the sign,
\* the integer digits, the fraction, the exponent, and then the range of a double
Float64(n) ==
    LET range(f, syntax) ==
            IF ~syntax
            THEN [f |-> F64Zero, err |-> NumError("strconv.ParseFloat: parsing ", n, ": invalid syntax")]
            ELSE IF FloatOverflows(f)
            THEN [f |-> F64Zero, err |-> NumError("strconv.ParseFloat: parsing ", n, ": value out of range")]
            ELSE IF Magnitude(f) < -323 THEN [f |-> F64Zero, err |-> Nil]
            ELSE [f |-> f, err |-> Nil]
        \* p: the position after the mantissa; nf: the number of fraction digits
        exponent(neg, mant, nf, p) ==
            IF p < Len(n) /\ At(n, p) \in { Ord["e"], Ord["E"] }
            THEN LET digits(esl, ne) ==
                         range(F64(neg, mant,
                                   ExponentOf(StripLeading(DigitsOf(SubSeq(n, p + 2 + esl, p + 1 + esl + ne))),
                                              esl = 1 /\ At(n, p + 1) = Ord["-"]) - nf),
                               Len(mant) > 0 /\ ne > 0 /\ p + 1 + esl + ne = Len(n))
                     sign(esl) == digits(esl, DigitRun(n, p + 1 + esl))
                 IN  sign(SignLen(From(n, p + 1)))
            ELSE range(F64(neg, mant, 0 - nf), Len(mant) > 0 /\ p = Len(n))
        \* p: the position after the integer digits
        fraction(neg, int, p) ==
            IF p < Len(n) /\ At(n, p) = Ord["."]
            THEN LET digits(nf) ==
                         exponent(neg, int \o DigitsOf(SubSeq(n, p + 2, p + 1 + nf)), nf, p + 1 + nf)
                 IN  digits(DigitRun(n, p + 1))
            ELSE exponent(neg, int, 0, p)
        integer(sl, ni) ==
            fraction(sl = 1 /\ At(n, 0) = Ord["-"], DigitsOf(SubSeq(n, sl + 1, sl + ni)), sl + ni)
        sign(sl) == integer(sl, DigitRun(n, sl))
    IN  sign(SignLen(n))

\* the digits of the float's integer part: its magnitude truncated toward zero
IntPart(f) ==
    IF Magnitude(f) <= 0 THEN << 0 >>
    ELSE IF f.exp >= 0 THEN f.mant \o Zeros(f.exp)
    ELSE Upto(f.mant, Magnitude(f))

\* f < 9.223372036e+21 && f > -9.223372036e+21
FallbackLimit == << 9,2,2,3,3,7,2,0,3,6,0,0,0,0,0,0,0,0,0,0,0,0 >>
InFallbackRange(f) ==
    Magnitude(f) <= Len(FallbackLimit) /\ MagLess(IntPart(f), FallbackLimit)

\* int64(f): exact inside the range of int64; outside it Go leaves the result to
\* the implementation (amd64 yields the minimum, arm64 saturates)
ToInt64(f) ==
    IF MagLess(IntPart(f), RoundsUpMag) THEN { I64(f.neg, IntPart(f)) }
    ELSE IF f.neg THEN { MinInt64 }
    ELSE { MinInt64, MaxInt64 }

----------------------------------------------------------------------------
(* Accessors of Json *)

\* Json.mismatch
mismatch(x, t) ==
    IF x.err # Nil THEN x.err
    ELSE << "type mismatch: expected ", t, ", found ", x.tp >>

\* Json.String
String(x) ==
    IF x.v.kind = "string" THEN [s |-> x.v.val, err |-> Nil]
    ELSE [s |-> << >>, err |-> mismatch(x, "STRING")]

\* number with the slip of ignoring the string-as-number flag
number_ignoresFlag(x) ==
    IF x.v.kind = "Number" THEN [n |-> x.v.val, err |-> Nil]
    ELSE [n |-> zero, err |-> mismatch(x, "NUMBER")]

\* Json.number
number(x) ==
    IF x.v.kind = "Number" THEN [n |-> x.v.val, err |-> Nil]
    ELSE IF ~x.atoi THEN [n |-> zero, err |-> mismatch(x, "NUMBER")]
    ELSE IF x.v.kind = "string" THEN [n |-> x.v.val, err |-> Nil]
    ELSE [n |-> zero, err |-> mismatch(x, "NUMBER")]

\* Json.Float
Float(x) ==
    LET convert(n) == IF n.err # Nil THEN [f |-> F64Zero, err |-> n.err] ELSE Float64(n.n)
    IN  convert(number(x))

\* Json.Int: the results it can return
Int_(x) ==
    LET fallback(r, f) ==
            IF r.err # Nil /\ f.err = Nil /\ InFallbackRange(f.f)
            THEN { [i |-> i, err |-> Nil] : i \in ToInt64(f.f) }
            ELSE { r }
        convert(n) ==
            IF n.err # Nil THEN { [i |-> I64Zero, err |-> n.err] }
            ELSE fallback(Int64(n.n), Float64(n.n))
    IN  convert(number(x))

\* Json.Type
Type_(x) == x.tp

\* Json.Len
Len_(x) ==
    IF x.v.kind = "string" THEN [n |-> Len(x.v.val), err |-> Nil]
    ELSE IF x.v.kind = "[]Json" THEN [n |-> Len(x.v.val), err |-> Nil]
    ELSE IF x.v.kind = "map[string]Json" THEN [n |-> Cardinality(DOMAIN x.v.val), err |-> Nil]
    ELSE [n |-> 0, err |-> << "type ", x.tp, " not supported Len()" >>]

\* Bool with the slip of taking every Number for true under all-as-bool
Bool_numberIsTrue(x) ==
    IF x.v.kind = "bool" THEN [b |-> x.v.val, err |-> Nil]
    ELSE IF ~x.tob THEN [b |-> FALSE, err |-> mismatch(x, "BOOL")]
    ELSE IF x.tp \in { "STRING", "ARRAY", "OBJECT" }
        THEN LET length(l) == [b |-> l.n > 0, err |-> l.err] IN length(Len_(x))
    ELSE IF x.tp = "NUMBER"
        THEN LET value(f) == [b |-> TRUE, err |-> f.err] IN value(Float(x))
    ELSE IF x.tp = "NULL" THEN [b |-> FALSE, err |-> Nil]
    ELSE [b |-> FALSE, err |-> mismatch(x, "BOOL")]

\* Json.Bool
Bool(x) ==
    IF x.v.kind = "bool" THEN [b |-> x.v.val, err |-> Nil]
    ELSE IF ~x.tob THEN [b |-> FALSE, err |-> mismatch(x, "BOOL")]
    ELSE IF x.tp \in { "STRING", "ARRAY", "OBJECT" }
        THEN LET length(l) == [b |-> l.n > 0, err |-> l.err] IN length(Len_(x))
    ELSE IF x.tp = "NUMBER"
        THEN LET value(f) == [b |-> f.f # F64Zero, err |-> f.err] IN value(Float(x))
    ELSE IF x.tp = "NULL" THEN [b |-> FALSE, err |-> Nil]
    ELSE [b |-> FALSE, err |-> mismatch(x, "BOOL")]

\* the orders in which a range over a map with the key set S can run
Orders(S) ==
    { p \in [1..Cardinality(S) -> S] : \A a, b \in 1..Cardinality(S) : p[a] = p[b] => a = b }

\* Json.Keys: the results it can return, one per iteration order of the map
Keys(x) ==
    IF x.v.kind # "map[string]Json"
    THEN { [keys |-> << >>, isnil |-> TRUE, err |-> mismatch(x, "OBJECT")] }
    ELSE { [keys |-> p, isnil |-> FALSE, err |-> Nil] : p \in Orders(DOMAIN x.v.val) }

\* Json.Values: the results it can return, one per iteration order of the map
Values(x) ==
    IF x.v.kind # "map[string]Json"
    THEN { [arr |-> << >>, isnil |-> TRUE, err |-> mismatch(x, "OBJECT")] }
    ELSE { [arr |-> [i \in DOMAIN p |-> x.v.val[p[i]]], isnil |-> FALSE, err |-> Nil] :
              p \in Orders(DOMAIN x.v.val) }

\* Member with the slip of reporting an absent name as an error
Member_absentIsError(x, name) ==
    IF x.v.kind # "map[string]Json" THEN JsonErr(mismatch(x, "OBJECT"))
    ELSE IF name \notin DOMAIN x.v.val THEN JsonErr(<< "not member name" >>)
    ELSE [x EXCEPT !.v = x.v.val[name].v, !.tp = x.v.val[name].tp]

\* Json.Member
Member(x, name) ==
    IF x.v.kind # "map[string]Json" THEN JsonErr(mismatch(x, "OBJECT"))
    ELSE IF name \notin DOMAIN x.v.val THEN [x EXCEPT !.v = VNil, !.tp = "NULL"]
    ELSE [x EXCEPT !.v = x.v.val[name].v, !.tp = x.v.val[name].tp]

\* Json.Element
Element(x, i) ==
    IF x.v.kind # "[]Json" THEN JsonErr(mismatch(x, "ARRAY"))
    ELSE IF i < 0 \/ i >= Len(x.v.val) THEN [x EXCEPT !.v = VNil, !.tp = "NULL"]
    ELSE [x EXCEPT !.v = At(x.v.val, i).v, !.tp = At(x.v.val, i).tp]

\* Json.Array
Array(x) ==
    IF x.v.kind # "[]Json" THEN [arr |-> << >>, isnil |-> TRUE, err |-> mismatch(x, "ARRAY")]
    ELSE [arr |-> x.v.val, isnil |-> FALSE, err |-> Nil]

\* Collect with the slip of returning what was converted before the failure
Collect_partial(r, field) ==
    IF \E i \in DOMAIN r : r[i].err # Nil
    THEN LET f == CHOOSE i \in DOMAIN r : r[i].err # Nil /\ \A k \in 1..(i - 1) : r[k].err = Nil
         IN  [arr |-> [i \in 1..(f - 1) |-> r[i][field]], isnil |-> FALSE, err |-> r[f].err]
    ELSE [arr |-> [i \in DOMAIN r |-> r[i][field]], isnil |-> FALSE, err |-> Nil]

\* the loop of an array conversion over the results r of its elements, in order:
\* the converted values, or nil and the first error
Collect(r, field) ==
    IF \E i \in DOMAIN r : r[i].err # Nil
    THEN [arr |-> << >>, isnil |-> TRUE,
          err |-> r[CHOOSE i \in DOMAIN r : r[i].err # Nil /\ \A k \in 1..(i - 1) : r[k].err = Nil].err]
    ELSE [arr |-> [i \in DOMAIN r |-> r[i][field]], isnil |-> FALSE, err |-> Nil]

\* the sequences that take their i-th entry from the set sets[i]
Choices(sets) ==
    { q \in [DOMAIN sets -> UNION { sets[i] : i \in DOMAIN sets }] :
        \A i \in DOMAIN sets : q[i] \in sets[i] }

\* Json.IntArray: the results it can return
IntArray(x) ==
    LET a == Array(x) IN
    IF a.err # Nil THEN { [arr |-> << >>, isnil |-> TRUE, err |-> a.err] }
    ELSE { Collect(r, "i") : r \in Choices([i \in DOMAIN a.arr |-> Int_(a.arr[i])]) }

\* Json.FloatArray
FloatArray(x) ==
    LET a == Array(x) IN
    IF a.err # Nil THEN [arr |-> << >>, isnil |-> TRUE, err |-> a.err]
    ELSE Collect([i \in DOMAIN a.arr |-> Float(a.arr[i])], "f")

\* Json.BoolArray
BoolArray(x) ==
    LET a == Array(x) IN
    IF a.err # Nil THEN [arr |-> << >>, isnil |-> TRUE, err |-> a.err]
    ELSE Collect([i \in DOMAIN a.arr |-> Bool(a.arr[i])], "b")

\* Json.StringArray
StringArray(x) ==
    LET a == Array(x) IN
    IF a.err # Nil THEN [arr |-> << >>, isnil |-> TRUE, err |-> a.err]
    ELSE Collect([i \in DOMAIN a.arr |-> String(a.arr[i])], "s")

\* the key kinds Get accepts as an index, and as a name
IntKinds == { "int", "int8", "int16", "int32", "int64",
              "uint", "uint8", "uint16", "uint32", "uint64" }

StrKey(s) == [kind |-> "string", s |-> s, n |-> 0]
IntKey(kind, n) == [kind |-> kind, s |-> << >>, n |-> n]

\* Get with the slip of not stopping at the first error
RECURSIVE Get_walksOn(_, _)
Get_walksOn(x, keys) ==
    IF Len(keys) = 0 THEN x
    ELSE LET k == Head(keys) IN
        IF k.kind \in IntKinds THEN Get_walksOn(Element(x, k.n), Tail(keys))
        ELSE IF k.kind = "string" THEN Get_walksOn(Member(x, k.s), Tail(keys))
        ELSE JsonErr(<< "key type ", k.kind, " not supported" >>)

\* Json.Get: one iteration of its loop per key
RECURSIVE Get(_, _)
Get(x, keys) ==
    IF Len(keys) = 0 THEN x
    ELSE IF x.err # Nil THEN x
    ELSE LET k == Head(keys) IN
        IF k.kind \in IntKinds THEN Get(Element(x, k.n), Tail(keys))
        ELSE IF k.kind = "string" THEN Get(Member(x, k.s), Tail(keys))
        ELSE JsonErr(<< "key type ", k.kind, " not supported" >>)

\* EachOfLoop with the slip of leaving out the elements whose Get failed
EachOfLoop_skipsFailures(arr, keys) ==
    LET r == [i \in DOMAIN arr |-> Get(arr[i], keys)] IN
    JsonOf(VArr(SelectSeq(r, LAMBDA e : e.err = Nil)), "ARRAY")

\* the loop of EachOf over arr
EachOfLoop(arr, keys) ==
    LET r == [i \in DOMAIN arr |-> Get(arr[i], keys)] IN
    IF \E i \in DOMAIN r : r[i].err # Nil
    THEN JsonErr(r[CHOOSE i \in DOMAIN r : r[i].err # Nil /\ \A k \in 1..(i - 1) : r[k].err = Nil].err)
    ELSE JsonOf(VArr(r), "ARRAY")

\* Json.EachOf: the results it can return (one per iteration order, for an object)
EachOf(x, keys) ==
    IF x.tp = "ARRAY" THEN
        LET a == Array(x) IN
        IF a.err # Nil THEN { JsonErr(a.err) } ELSE { EachOfLoop(a.arr, keys) }
    ELSE IF x.tp = "OBJECT" THEN
        { IF a.err # Nil THEN JsonErr(a.err) ELSE EachOfLoop(a.arr, keys) : a \in Values(x) }
    ELSE { JsonErr(<< "type ", x.tp, " not supported EachOf()" >>) }

\* StringAsNumber with the slip of flipping the flag
StringAsNumber_toggles(x) == [x EXCEPT !.atoi = ~x.atoi]

\* Json.StringAsNumber and Json.AllAsBool, on the variable holding x
StringAsNumber(x) == [x EXCEPT !.atoi = TRUE]
AllAsBool(x) == [x EXCEPT !.tob = TRUE]

----------------------------------------------------------------------------
(* Inputs *)

\* {"a":[1,"2",true],"b":{"a":null}}
DocNested == Bytes(<< "{", "\"", "a", "\"", ":", "[", "1", ",", "\"", "2", "\"", ",", "t", "r", "u", "e", "]", ",", "\"", "b", "\"", ":", "{", "\"", "a", "\"", ":", "n", "u", "l", "l", "}", "}" >>)

\* [{"a":1},{"a":"7"},{"b":[0]}]
DocRecords == Bytes(<< "[", "{", "\"", "a", "\"", ":", "1", "}", ",", "{", "\"", "a", "\"", ":", "\"", "7", "\"", "}", ",", "{", "\"", "b", "\"", ":", "[", "0", "]", "}", "]" >>)

\* [{"a":1},{"a":2}]
DocIds == Bytes(<< "[", "{", "\"", "a", "\"", ":", "1", "}", ",", "{", "\"", "a", "\"", ":", "2", "}", "]" >>)

\* ["1","x",""]
DocStrings == Bytes(<< "[", "\"", "1", "\"", ",", "\"", "x", "\"", ",", "\"", "\"", "]" >>)

\* [1, 2e999, 3]
DocOverflow == Bytes(<< "[", "1", ",", " ", "2", "e", "9", "9", "9", ",", " ", "3", "]" >>)

\* [false,"0",0,null,[],{}]
DocMixed == Bytes(<< "[", "f", "a", "l", "s", "e", ",", "\"", "0", "\"", ",", "0", ",", "n", "u", "l", "l", ",", "[", "]", ",", "{", "}", "]" >>)

\* {"a":1,"a":"2"}
DocDup == Bytes(<< "{", "\"", "a", "\"", ":", "1", ",", "\"", "a", "\"", ":", "\"", "2", "\"", "}" >>)

\* {"a":1} x
DocTrailing == Bytes(<< "{", "\"", "a", "\"", ":", "1", "}", " ", "x" >>)

\* [1,"a"
DocOpen == Bytes(<< "[", "1", ",", "\"", "a", "\"" >>)

\*  tru
DocBadLit == Bytes(<< " ", "t", "r", "u" >>)

Docs == { DocNested, DocRecords, DocIds, DocStrings, DocOverflow, DocMixed, DocDup, DocTrailing, DocOpen, DocBadLit }

\* number literals: small, fractional, with an exponent, around 2^63 and around the
\* limit of Int's fallback, and two that are no decimal number
Literals == {
    Bytes(<< "4", "2" >>),
    Bytes(<< "-", "7" >>),
    Bytes(<< "0" >>),
    Bytes(<< "1", "0", "2", "4", ".", "1", "2", "5" >>),
    Bytes(<< "-", "1", ".", "5" >>),
    Bytes(<< "1", "e", "2" >>),
    Bytes(<< "1", "e", "2", "0" >>),
    Bytes(<< "1", "e", "9", "9", "9", "9" >>),
    Bytes(<< "9", "2", "2", "3", "3", "7", "2", "0", "3", "6", "8", "5", "4", "7", "7", "5", "8", "0", "7" >>),
    Bytes(<< "9", "2", "2", "3", "3", "7", "2", "0", "3", "6", "8", "5", "4", "7", "7", "5", "8", "0", "8" >>),
    Bytes(<< "-", "9", "2", "2", "3", "3", "7", "2", "0", "3", "6", "8", "5", "4", "7", "7", "5", "8", "0", "8" >>),
    Bytes(<< "-", "9", "2", "2", "3", "3", "7", "2", "0", "3", "6", "8", "5", "4", "7", "7", "5", "8", "0", "9" >>),
    Bytes(<< "9", "2", "2", "3", "3", "7", "2", "0", "3", "6", "0", "0", "0", "0", "0", "0", "0", "0", "0", "0", "0", "0" >>),
    Bytes(<< "9", "2", "2", "3", "3", "7", "2", "0", "3", "5", "0", "0", "0", "0", "0", "0", "0", "0", "0", "0", "0", "0" >>),
    Bytes(<< "-" >>),
    Bytes(<< "1", "e" >>) }

\* each literal as a Number document and as a String document
NumberDocs == Literals \cup { << Ord["\""] >> \o n \o << Ord["\""] >> : n \in Literals }

\* member names, indexes and keys the caller navigates with
Names == { Bytes(<< "a" >>), Bytes(<< "b" >>) }
Indexes == -1..3
KeySet == { StrKey(Bytes(<< "a" >>)), IntKey("int", 0), IntKey("uint8", 1), IntKey("int64", -1),
            [kind |-> "float64", s |-> << >>, n |-> 0] }

\* the longest key sequence handed to Get and to EachOf
MaxGetKeys == 2
MaxEachOfKeys == 1

KeySeqs(n) == UNION { [1..k -> KeySet] : k \in 0..n }

----------------------------------------------------------------------------
(* The caller: it decodes data once, then calls accessors on the Json it holds.  *)
(* pc is "start" before Unmarshal, "returned" when a call has just returned     *)
(* (op holds the call and its result), "idle" between calls, and "panic" when   *)
(* Unmarshal aborted the goroutine.                                             *)

NoOp == [name |-> "none"]

Init ==
    /\ data \in Docs \cup NumberDocs
    /\ pc = "start"
    /\ j = Json
    /\ uerr = Nil
    /\ op = NoOp

\* j, err := Unmarshal(data)
DoUnmarshal ==
    /\ pc = "start"
    /\ \E r \in { Unmarshal(data) } :
        /\ pc' = IF r.panic THEN "panic" ELSE "returned"
        /\ j' = r.j
        /\ uerr' = r.err
        /\ op' = [name |-> "Unmarshal", res |-> r]
    /\ UNCHANGED data

\* the caller is done with the result of the last call
Continue ==
    /\ pc = "returned"
    /\ pc' = "idle"
    /\ op' = NoOp
    /\ UNCHANGED << data, j, uerr >>

\* a call that leaves j alone and returns res
Returns(name, res) ==
    /\ pc = "idle"
    /\ pc' = "returned"
    /\ op' = [name |-> name, recv |-> j, res |-> res]
    /\ UNCHANGED << data, j, uerr >>

\* j = j.<name>(arg)
Navigates(name, arg, res) ==
    /\ pc = "idle"
    /\ pc' = "returned"
    /\ j' = res
    /\ op' = [name |-> name, recv |-> j, arg |-> arg, res |-> res]
    /\ UNCHANGED << data, uerr >>

DoString == Returns("String", String(j))
DoFloat == Returns("Float", Float(j))
DoInt == \E r \in Int_(j) : Returns("Int", r)
DoBool == Returns("Bool", Bool(j))
DoType == Returns("Type", Type_(j))
DoLen == Returns("Len", Len_(j))
DoKeys == \E r \in Keys(j) : Returns("Keys", r)
DoValues == \E r \in Values(j) : Returns("Values", r)
DoArray == Returns("Array", Array(j))
DoIntArray == \E r \in IntArray(j) : Returns("IntArray", r)
DoFloatArray == Returns("FloatArray", FloatArray(j))
DoBoolArray == Returns("BoolArray", BoolArray(j))
DoStringArray == Returns("StringArray", StringArray(j))

DoMember == \E name \in Names : Navigates("Member", name, Member(j, name))
DoElement == \E i \in Indexes : Navigates("Element", i, Element(j, i))
DoGet == \E keys \in KeySeqs(MaxGetKeys) : Navigates("Get", keys, Get(j, keys))
DoEachOf == \E keys \in KeySeqs(MaxEachOfKeys) : \E r \in EachOf(j, keys) : Navigates("EachOf", keys, r)

DoStringAsNumber == Navigates("StringAsNumber", << >>, StringAsNumber(j))
DoAllAsBool == Navigates("AllAsBool", << >>, AllAsBool(j))

Next ==
    \/ DoUnmarshal
    \/ Continue
    \/ DoString
    \/ DoFloat
    \/ DoInt
    \/ DoBool
    \/ DoType
    \/ DoLen
    \/ DoKeys
    \/ DoValues
    \/ DoArray
    \/ DoIntArray
    \/ DoFloatArray
    \/ DoBoolArray
    \/ DoStringArray
    \/ DoMember
    \/ DoElement
    \/ DoGet
    \/ DoEachOf
    \/ DoStringAsNumber
    \/ DoAllAsBool

Spec == Init /\ [][Next]_vars

----------------------------------------------------------------------------
(* The slice Array() returns is the slice the Json holds: a method called on one *)
(* of its entries through a pointer acts on the entry the Json holds.            *)

\* arr, _ := x.Array(); arr[i].StringAsNumber(): x afterwards
EntryStringAsNumber(x, i) == [x EXCEPT !.v.val[i + 1] = StringAsNumber(@)]

\* arr, _ := x.Array(); arr[i].AllAsBool(): x afterwards
EntryAllAsBool(x, i) == [x EXCEPT !.v.val[i + 1] = AllAsBool(@)]

DoEntryStringAsNumber ==
    /\ j.v.kind = "[]Json"
    /\ \E i \in 0..(Len(j.v.val) - 1) :
        Navigates("Array.StringAsNumber", i, EntryStringAsNumber(j, i))

DoEntryAllAsBool ==
    /\ j.v.kind = "[]Json"
    /\ \E i \in 0..(Len(j.v.val) - 1) :
        Navigates("Array.AllAsBool", i, EntryAllAsBool(j, i))

\* the caller starts from a document that holds an array of at most three entries
InitAlias ==
    /\ data \in { DocStrings, DocNested, DocIds, DocOverflow }
    /\ pc = "start"
    /\ j = Json
    /\ uerr = Nil
    /\ op = NoOp

NextAlias ==
    \/ DoUnmarshal
    \/ Continue
    \/ DoMember
    \/ DoElement
    \/ DoEntryStringAsNumber
    \/ DoEntryAllAsBool
    \/ DoIntArray
    \/ DoFloatArray
    \/ DoBoolArray

SpecAlias == InitAlias /\ [][NextAlias]_vars

----------------------------------------------------------------------------
(* Decoding every short byte sequence *)

\* the bytes the enumerated inputs are made of, and their longest length
Alphabet == { Ord[" "], Ord["["], Ord["]"], Ord["{"], Ord["}"], Ord[","], Ord[":"],
              Ord["\""], Ord["1"] }
MaxLen == 4

ByteSeqs == UNION { [1..n -> Alphabet] : n \in 0..MaxLen }

\* texts that open a string: a quote, then quotes, backslashes and letters
StringAlphabet == { Ord["\""], Ord["\\"], Ord["a"] }
MaxStringLen == 5

StringSeqs ==
    { << Ord["\""] >> \o s : s \in UNION { [1..n -> StringAlphabet] : n \in 0..MaxStringLen } }

\* the pieces string bodies are made of: a letter, the escapes of one character, and
\* \u escapes of an ASCII, a two-byte and a three-byte code point, of a high and of a
\* low surrogate, with a digit that is not hexadecimal, and cut short
EscapeUnits == {
    Bytes(<< "a" >>),
    Bytes(<< "\\", "\"" >>), Bytes(<< "\\", "\\" >>), Bytes(<< "\\", "/" >>), Bytes(<< "\\", "'" >>),
    Bytes(<< "\\", "b" >>), Bytes(<< "\\", "f" >>), Bytes(<< "\\", "n" >>), Bytes(<< "\\", "r" >>),
    Bytes(<< "\\", "t" >>), Bytes(<< "\\", "a" >>), Bytes(<< "\\", "0" >>),
    Bytes(<< "\\", "u", "0", "0", "4", "1" >>),
    Bytes(<< "\\", "u", "0", "0", "e", "9" >>),
    Bytes(<< "\\", "u", "2", "0", "A", "C" >>),
    Bytes(<< "\\", "u", "D", "8", "3", "D" >>),
    Bytes(<< "\\", "u", "D", "E", "0", "0" >>),
    Bytes(<< "\\", "u", "0", "0", "g", "0" >>),
    Bytes(<< "\\", "u", "0", "0" >>) }

\* the most units in a string body
MaxUnits == 2

RECURSIVE Bodies(_)
Bodies(n) == IF n = 0 THEN { << >> } ELSE { u \o s : u \in EscapeUnits, s \in Bodies(n - 1) }

\* string literals with one to MaxUnits units between the quotes
EscapeDocs ==
    { << Ord["\""] >> \o s \o << Ord["\""] >> : s \in UNION { Bodies(n) : n \in 1..MaxUnits } }

\* unquote(data), called on its own
DoUnquote ==
    /\ pc = "start"
    /\ pc' = "returned"
    /\ op' = [name |-> "unquote", res |-> unquote(data)]
    /\ UNCHANGED << data, j, uerr >>

\* parseString(data), called on its own: its callers hand it at least one byte
DoParseString ==
    /\ pc = "start"
    /\ Len(data) > 0
    /\ pc' = "returned"
    /\ op' = [name |-> "parseString", res |-> parseString(data)]
    /\ UNCHANGED << data, j, uerr >>

\* the errors a read of the io.Reader can end with: none, or a failure
ReadErrors == { Nil, << "read: connection reset by peer" >> }

\* j, err := DecodeFrom(r), for a reader that yields data or fails
DoDecodeFrom ==
    /\ pc = "start"
    /\ \E rerr \in ReadErrors :
        \E r \in { DecodeFrom(data, rerr) } :
            /\ pc' = IF r.panic THEN "panic" ELSE "returned"
            /\ j' = r.j
            /\ uerr' = r.err
            /\ op' = [name |-> "DecodeFrom", arg |-> rerr, res |-> r]
    /\ UNCHANGED data

\* parse(data), called on its own
DoParse ==
    /\ pc = "start"
    /\ \E r \in { parse(data) } :
        /\ pc' = IF r.panic THEN "panic" ELSE "returned"
        /\ op' = [name |-> "parse", res |-> r]
    /\ UNCHANGED << data, j, uerr >>

\* jsonskip(data), called on its own
DoJsonskip ==
    /\ pc = "start"
    /\ pc' = "returned"
    /\ op' = [name |-> "jsonskip", res |-> jsonskip(data)]
    /\ UNCHANGED << data, j, uerr >>

InitParse ==
    /\ data \in ByteSeqs \cup Docs \cup StringSeqs \cup EscapeDocs
    /\ pc = "start"
    /\ j = Json
    /\ uerr = Nil
    /\ op = NoOp

\* the caller of the path-guided decoder starts from a document or a short text
InitPath ==
    /\ data \in ByteSeqs \cup Docs
    /\ pc = "start"
    /\ j = Json
    /\ uerr = Nil
    /\ op = NoOp

NextParse ==
    \/ DoUnmarshal
    \/ DoDecodeFrom
    \/ DoParse
    \/ DoJsonskip
    \/ DoParseString
    \/ DoUnquote
    \/ Continue

SpecParse == InitParse /\ [][NextParse]_vars

----------------------------------------------------------------------------
(* Path-guided decoding: Unmarshal(data, keys...) descends one key per aggregate *)
(* level, parses the member or element the key selects and skips the others.     *)

\* the Null that navigation yields for an absent member or element
absent == JsonOf(VNil, "NULL")

\* the result r of a scanner called at offset i
decoded(i, r) == [j |-> r.j, i |-> IF r.err # Nil THEN i ELSE i + r.i, err |-> r.err]

\* a value that the head of keys does not select into: it is skipped, and the rest is
\* navigation on a Json of its tag
unselected(p, keys, r) ==
    IF r.err # Nil THEN [j |-> JsonErr(r.err), i |-> 0, err |-> r.err]
    ELSE IF At(p, 0) = Ord["{"] THEN [j |-> Get(JsonOf(VMap(<< >>), "OBJECT"), keys), i |-> r.i, err |-> Nil]
    ELSE IF At(p, 0) = Ord["["] THEN [j |-> Get(JsonOf(VArr(<< >>), "ARRAY"), keys), i |-> r.i, err |-> Nil]
    ELSE [j |-> Get(parse(p).j, keys), i |-> r.i, err |-> Nil]

RECURSIVE decode(_, _), decodeObjectLoop(_, _, _, _, _, _), decodeArrayLoop(_, _, _, _, _, _)

\* the members of the object b from offset i on: the value of a member called
\* Head(keys) is decoded with the rest of keys, the others are skipped; found is the
\* Json of the last such member so far, k the name just read
decodeObjectLoop(b, i, state, keys, found, k) ==
    IF i >= Len(b) THEN [j |-> JsonErr(errObjectEOF), i |-> i, err |-> errObjectEOF]
    ELSE IF isspace(At(b, i)) THEN decodeObjectLoop(b, i + 1, state, keys, found, k)
    ELSE IF state = stateMemberName THEN
        LET name(r) ==
                IF r.err # Nil THEN [j |-> JsonErr(r.err), i |-> i, err |-> r.err]
                ELSE decodeObjectLoop(b, i + r.i, stateColon, keys, found, r.s)
        IN  name(parseString(From(b, i)))
    ELSE IF state = stateColon THEN
        IF At(b, i) # Ord[":"]
        THEN [j |-> JsonErr(errObjectEOF), i |-> i, err |-> errObjectEOF]
        ELSE decodeObjectLoop(b, i + 1, stateMemberValue, keys, found, k)
    ELSE IF state = stateMemberValue THEN
        LET value(r) ==
                IF r.err # Nil THEN [j |-> JsonErr(r.err), i |-> i, err |-> r.err]
                ELSE decodeObjectLoop(b, i + r.i, stateDone, keys, r.j, k)
            skip(r) ==
                IF r.err # Nil THEN [j |-> JsonErr(r.err), i |-> i, err |-> r.err]
                ELSE decodeObjectLoop(b, i + r.i, stateDone, keys, found, k)
        IN  IF k = Head(keys).s THEN value(decode(From(b, i), Tail(keys)))
            ELSE skip(jsonskip(From(b, i)))
    ELSE \* stateDone
        IF At(b, i) = Ord[","] THEN decodeObjectLoop(b, i + 1, stateMemberName, keys, found, k)
        ELSE IF At(b, i) = Ord["}"] THEN [j |-> found, i |-> i + 1, err |-> Nil]
        ELSE [j |-> JsonErr(errObjectEOF), i |-> i, err |-> errObjectEOF]

\* the elements of the array b from offset i on: element Head(keys).n is decoded with
\* the rest of keys, the others are skipped; pos counts the elements passed
decodeArrayLoop(b, i, state, keys, found, pos) ==
    IF i >= Len(b) THEN [j |-> JsonErr(errJSONEOF), i |-> i, err |-> errJSONEOF]
    ELSE IF isspace(At(b, i)) THEN decodeArrayLoop(b, i + 1, state, keys, found, pos)
    ELSE IF state = stateValue THEN
        LET value(r) ==
                IF r.err # Nil THEN [j |-> JsonErr(r.err), i |-> i, err |-> r.err]
                ELSE decodeArrayLoop(b, i + r.i, stateDone, keys, r.j, pos + 1)
            skip(r) ==
                IF r.err # Nil THEN [j |-> JsonErr(r.err), i |-> i, err |-> r.err]
                ELSE decodeArrayLoop(b, i + r.i, stateDone, keys, found, pos + 1)
        IN  IF pos = Head(keys).n THEN value(decode(From(b, i), Tail(keys)))
            ELSE skip(jsonskip(From(b, i)))
    ELSE \* stateDone
        IF At(b, i) = Ord[","] THEN decodeArrayLoop(b, i + 1, stateValue, keys, found, pos)
        ELSE IF At(b, i) = Ord["]"] THEN [j |-> found, i |-> i + 1, err |-> Nil]
        ELSE [j |-> JsonErr(errJSONEOF), i |-> i, err |-> errJSONEOF]

\* the Json that keys select in the first value of b, the bytes consumed and the
\* syntax error; without keys it is parse, and an input without a value is an error
decode(b, keys) ==
    LET switch(i, p) ==
            IF Len(p) = 0 THEN [j |-> JsonErr(errJSONEOF), i |-> i, err |-> errJSONEOF]
            ELSE IF Len(keys) = 0 THEN decoded(i, parse(p))
            ELSE IF At(p, 0) = Ord["{"] /\ Head(keys).kind = "string" /\ Len(p) >= 2
                    /\ At(p, 1) # Ord["}"]
                THEN decoded(i, decodeObjectLoop(p, 1, stateMemberName, keys,
                                                 Get(absent, Tail(keys)), << >>))
            ELSE IF At(p, 0) = Ord["["] /\ Head(keys).kind \in IntKinds /\ Len(p) >= 2
                    /\ At(p, 1) # Ord["]"]
                THEN decoded(i, decodeArrayLoop(p, 1, stateValue, keys,
                                                Get(absent, Tail(keys)), 0))
            ELSE decoded(i, unselected(p, keys, jsonskip(p)))
        from(i) == switch(i, From(b, i))
    IN  from(skipspace(b))

\* Unmarshal(data, keys...)
UnmarshalPath(d, keys) ==
    LET result(r) ==
            IF r.err # Nil THEN [j |-> r.j, err |-> r.err]
            ELSE IF skipspace(From(d, r.i)) + r.i # Len(d) THEN [j |-> r.j, err |-> ErrMoreBytes]
            ELSE [j |-> r.j, err |-> Nil]
    IN  result(decode(d, keys))

\* j, err := Unmarshal(data, keys...)
DoUnmarshalPath ==
    /\ pc = "start"
    /\ \E keys \in KeySeqs(MaxGetKeys) :
        \E r \in { UnmarshalPath(data, keys) } :
            /\ pc' = "returned"
            /\ j' = r.j
            /\ uerr' = r.err
            /\ op' = [name |-> "UnmarshalPath", arg |-> keys, res |-> r]
    /\ UNCHANGED data

NextPath ==
    \/ DoUnmarshalPath
    \/ Continue

SpecPath == InitPath /\ [][NextPath]_vars

----------------------------------------------------------------------------
(* The loops of parseObject, parseArray, jsonskipObject and jsonskipArray, one    *)
(* iteration at a time. Of an error only whether it is nil is kept, and of the    *)
(* parsers' results only the position.                                            *)

LoopFns == { "parseObject", "parseArray", "jsonskipObject", "jsonskipArray" }

OnObject(f) == f \in { "parseObject", "jsonskipObject" }

\* the scan of a member value or element: parse in the parsers, jsonskip in the
\* skippers
subscan(f, p) ==
    LET scanned(r) == [i |-> r.i, failed |-> r.err # Nil]
    IN  IF f \in { "parseObject", "parseArray" } THEN scanned(parse(p)) ELSE scanned(jsonskip(p))

\* a return of the function at position i
Return(i, failed) == [done |-> TRUE, i |-> i, state |-> stateDone, failed |-> failed]

\* the end of an iteration that goes on at position i in state
Goes(i, state) == [done |-> FALSE, i |-> i, state |-> state, failed |-> FALSE]

\* the statements before the loop
enterLoop(f, b) ==
    IF Len(b) = 0 THEN Return(0, TRUE)
    ELSE IF At(b, 0) # (IF OnObject(f) THEN Ord["{"] ELSE Ord["["]) THEN Return(0, TRUE)
    ELSE IF Len(b) < 2 THEN Return(1, TRUE)
    ELSE IF At(b, 1) = (IF OnObject(f) THEN Ord["}"] ELSE Ord["]"]) THEN Return(2, FALSE)
    ELSE Goes(1, IF OnObject(f) THEN stateMemberName ELSE stateValue)

\* arrayIteration with the slip of not stepping over the comma
arrayIteration_staysOnComma(f, b, i, state) ==
    IF i >= Len(b) THEN Return(i, TRUE)
    ELSE IF isSpace(At(b, i)) THEN Goes(i + 1, state)
    ELSE IF state = stateValue THEN
        LET value(r) == IF r.failed THEN Return(i, TRUE) ELSE Goes(i + r.i, stateDone)
        IN  value(subscan(f, From(b, i)))
    ELSE IF At(b, i) = Ord[","] THEN Goes(i, stateValue)
    ELSE IF At(b, i) = Ord["]"] THEN Return(i + 1, FALSE)
    ELSE Return(i, TRUE)

\* the test and one iteration of the loop of parseObject and jsonskipObject
objectIteration(f, b, i, state) ==
    IF i >= Len(b) THEN Return(i, TRUE)
    ELSE IF isSpace(At(b, i)) THEN Goes(i + 1, state)
    ELSE IF state = stateMemberName THEN
        LET name(r) == IF r.err # Nil THEN Return(i, TRUE) ELSE Goes(i + r.i, stateColon)
        IN  name(parseString(From(b, i)))
    ELSE IF state = stateColon THEN
        IF At(b, i) # Ord[":"] THEN Return(i, TRUE) ELSE Goes(i + 1, stateMemberValue)
    ELSE IF state = stateMemberValue THEN
        LET value(r) == IF r.failed THEN Return(i, TRUE) ELSE Goes(i + r.i, stateDone)
        IN  value(subscan(f, From(b, i)))
    ELSE IF At(b, i) = Ord[","] THEN Goes(i + 1, stateMemberName)
    ELSE IF At(b, i) = Ord["}"] THEN Return(i + 1, FALSE)
    ELSE Return(i, TRUE)

\* the test and one iteration of the loop of parseArray and jsonskipArray
arrayIteration(f, b, i, state) ==
    IF i >= Len(b) THEN Return(i, TRUE)
    ELSE IF isSpace(At(b, i)) THEN Goes(i + 1, state)
    ELSE IF state = stateValue THEN
        LET value(r) == IF r.failed THEN Return(i, TRUE) ELSE Goes(i + r.i, stateDone)
        IN  value(subscan(f, From(b, i)))
    ELSE IF At(b, i) = Ord[","] THEN Goes(i + 1, stateValue)
    ELSE IF At(b, i) = Ord["]"] THEN Return(i + 1, FALSE)
    ELSE Return(i, TRUE)

\* the caller is in the loop of op.name at position op.i, which the last iteration
\* reached from position op.from; or the function has returned
Reaches(f, from, r) ==
    /\ pc' = IF r.done THEN "returned" ELSE "loop"
    /\ op' = [name |-> f, from |-> from, i |-> r.i, state |-> r.state, failed |-> r.failed]
    /\ UNCHANGED << data, j, uerr >>

\* a call of one of the four functions on data, up to its loop
Enter ==
    /\ pc = "start"
    /\ \E f \in LoopFns : Reaches(f, 0, enterLoop(f, data))

\* one iteration of the loop of parseObject or jsonskipObject
IterateObject ==
    /\ pc = "loop"
    /\ OnObject(op.name)
    /\ Reaches(op.name, op.i, objectIteration(op.name, data, op.i, op.state))

\* one iteration of the loop of parseArray or jsonskipArray
IterateArray ==
    /\ pc = "loop"
    /\ ~OnObject(op.name)
    /\ Reaches(op.name, op.i, arrayIteration(op.name, data, op.i, op.state))

InitLoop ==
    /\ data \in ByteSeqs \cup Docs
    /\ pc = "start"
    /\ j = Json
    /\ uerr = Nil
    /\ op = NoOp

NextLoop ==
    \/ Enter
    \/ IterateObject
    \/ IterateArray
    \/ Continue

SpecLoop == InitLoop /\ [][NextLoop]_vars

----------------------------------------------------------------------------
(* The JSON grammar (RFC 8259), with the number token of the specification: *)
(* an optional '-' and the longest run of digits, '.', 'e', 'E', '+', '-'.  *)
(* Each recognizer returns the offset just past what it recognizes at       *)
(* offset i of b, or -1.                                                     *)

GrammarSpace == { 32, 9, 10, 13, 11, 12 }

RECURSIVE WsEnd(_, _)
WsEnd(b, i) == IF i < Len(b) /\ At(b, i) \in GrammarSpace THEN WsEnd(b, i + 1) ELSE i

IsHex(c) ==
    \/ c >= Ord["0"] /\ c <= Ord["9"]
    \/ c >= Ord["a"] /\ c <= Ord["f"]
    \/ c >= Ord["A"] /\ c <= Ord["F"]

RECURSIVE CharsEnd(_, _)
\* the characters of a string literal and its closing quote
CharsEnd(b, i) ==
    IF i >= Len(b) THEN -1
    ELSE IF At(b, i) = Ord["\""] THEN i + 1
    ELSE IF At(b, i) < 32 THEN -1
    ELSE IF At(b, i) # Ord["\\"] THEN CharsEnd(b, i + 1)
    ELSE IF i + 1 >= Len(b) THEN -1
    ELSE IF At(b, i + 1) \in { Ord["\""], Ord["\\"], Ord["/"], Ord["b"], Ord["f"],
                               Ord["n"], Ord["r"], Ord["t"] } THEN CharsEnd(b, i + 2)
    ELSE IF At(b, i + 1) = Ord["u"] /\ i + 5 < Len(b) /\ \A k \in 2..5 : IsHex(At(b, i + k))
        THEN CharsEnd(b, i + 6)
    ELSE -1

StringEnd(b, i) == IF i < Len(b) /\ At(b, i) = Ord["\""] THEN CharsEnd(b, i + 1) ELSE -1

RECURSIVE NumberRunEnd(_, _)
NumberRunEnd(b, i) ==
    IF i < Len(b) /\ ((At(b, i) >= Ord["0"] /\ At(b, i) <= Ord["9"])
                      \/ At(b, i) \in { Ord["."], Ord["e"], Ord["E"], Ord["+"], Ord["-"] })
    THEN NumberRunEnd(b, i + 1) ELSE i

RECURSIVE ValueEnd(_, _), ElementsEnd(_, _), MembersEnd(_, _)

\* value (ws ',' ws value)* ws ']'
ElementsEnd(b, i) ==
    LET e == ValueEnd(b, i)
        k == WsEnd(b, e)
    IN  IF e < 0 \/ k >= Len(b) THEN -1
        ELSE IF At(b, k) = Ord["]"] THEN k + 1
        ELSE IF At(b, k) = Ord[","] THEN ElementsEnd(b, WsEnd(b, k + 1))
        ELSE -1

\* string ws ':' ws value (ws ',' ws member)* ws '}'
MembersEnd(b, i) ==
    LET n == StringEnd(b, i)
        c == WsEnd(b, n)
        e == IF n < 0 \/ c >= Len(b) \/ At(b, c) # Ord[":"] THEN -1
             ELSE ValueEnd(b, WsEnd(b, c + 1))
        k == WsEnd(b, e)
    IN  IF n < 0 \/ e < 0 \/ k >= Len(b) THEN -1
        ELSE IF At(b, k) = Ord["}"] THEN k + 1
        ELSE IF At(b, k) = Ord[","] THEN MembersEnd(b, WsEnd(b, k + 1))
        ELSE -1

ValueEnd(b, i) ==
    IF i < 0 \/ i >= Len(b) THEN -1
    ELSE LET c == At(b, i) IN
        IF c = Ord["["] THEN
            LET k == WsEnd(b, i + 1) IN
            IF k < Len(b) /\ At(b, k) = Ord["]"] THEN k + 1 ELSE ElementsEnd(b, k)
        ELSE IF c = Ord["{"] THEN
            LET k == WsEnd(b, i + 1) IN
            IF k < Len(b) /\ At(b, k) = Ord["}"] THEN k + 1 ELSE MembersEnd(b, k)
        ELSE IF c = Ord["\""] THEN StringEnd(b, i)
        ELSE IF HasPrefix(From(b, i), Bytes(<< "t", "r", "u", "e" >>)) THEN i + 4
        ELSE IF HasPrefix(From(b, i), Bytes(<< "f", "a", "l", "s", "e" >>)) THEN i + 5
        ELSE IF HasPrefix(From(b, i), Bytes(<< "n", "u", "l", "l" >>)) THEN i + 4
        ELSE IF c = Ord["-"] \/ (c >= Ord["0"] /\ c <= Ord["9"]) THEN NumberRunEnd(b, i)
        ELSE -1

\* the end of the first value of b, after leading whitespace
FirstValueEnd(b) == ValueEnd(b, WsEnd(b, 0))

\* b is exactly one value, with whitespace around it
WellFormed(b) == FirstValueEnd(b) >= 0 /\ WsEnd(b, FirstValueEnd(b)) = Len(b)

\* b is one value followed by a byte that is not whitespace
HasTrailingBytes(b) == FirstValueEnd(b) >= 0 /\ WsEnd(b, FirstValueEnd(b)) < Len(b)

----------------------------------------------------------------------------
(* Claims *)

Returned(name) == pc = "returned" /\ op.name = name

\* C1: Unmarshal returns a nil error only for exactly one well-formed value with
\* nothing but whitespace after it; a well-formed first value followed by a byte that
\* is not whitespace gives ErrMoreBytes; and a syntax error inside the value never
\* gives ErrMoreBytes.
C1_TrailingBytes ==
    Returned("Unmarshal") =>
        /\ uerr = Nil => WellFormed(data)
        /\ HasTrailingBytes(data) => uerr = ErrMoreBytes
        /\ FirstValueEnd(data) < 0 => uerr # ErrMoreBytes

\* the error of a conversion or navigation that found the wrong tag
TypeMismatch(expected, found) == << "type mismatch: expected ", expected, ", found ", found >>

\* C2, as stated: Member of an absent name and Element of an index out of range give
\* NULL without an error; Member on any Value that is no Object, and Element on any
\* Value that is no Array, give INVALID with the type mismatch naming both tags.
C2_AsStated ==
    /\ Returned("Member") =>
        IF op.recv.tp = "OBJECT"
        THEN op.arg \notin DOMAIN op.recv.v.val => op.res.tp = "NULL" /\ op.res.err = Nil
        ELSE op.res.tp = "INVALID" /\ op.res.err = TypeMismatch("OBJECT", op.recv.tp)
    /\ Returned("Element") =>
        IF op.recv.tp = "ARRAY"
        THEN (op.arg < 0 \/ op.arg >= Len(op.recv.v.val)) =>
                op.res.tp = "NULL" /\ op.res.err = Nil
        ELSE op.res.tp = "INVALID" /\ op.res.err = TypeMismatch("ARRAY", op.recv.tp)

\* what C2 promises of a navigation expecting the tag `expected`, amended for a
\* receiver that is already Invalid
NavigationFails(expected) ==
    /\ op.res.tp = "INVALID"
    /\ op.res.err = IF op.recv.tp = "INVALID" /\ op.recv.err # Nil THEN op.recv.err
                    ELSE TypeMismatch(expected, op.recv.tp)

\* C2, amended: as C2, but on a receiver that is already Invalid Member and Element
\* give an Invalid Value carrying the receiver's stored error, not a type mismatch.
C2_Navigation ==
    /\ Returned("Member") =>
        IF op.recv.tp = "OBJECT"
        THEN op.arg \notin DOMAIN op.recv.v.val => op.res.tp = "NULL" /\ op.res.err = Nil
        ELSE NavigationFails("OBJECT")
    /\ Returned("Element") =>
        IF op.recv.tp = "ARRAY"
        THEN (op.arg < 0 \/ op.arg >= Len(op.recv.v.val)) =>
                op.res.tp = "NULL" /\ op.res.err = Nil
        ELSE NavigationFails("ARRAY")

\* Member("a") on a Number has returned an Invalid Value
C2_Witness ==
    /\ Returned("Member")
    /\ op.recv.tp = "NUMBER"
    /\ op.res.tp = "INVALID"
    /\ op.res.err = TypeMismatch("OBJECT", "NUMBER")

\* the operations of C3 that record a receiver and a result with an error
AccessorOps ==
    { "String", "Float", "Int", "Bool", "Len", "Keys", "Values", "Array", "IntArray",
      "FloatArray", "BoolArray", "StringArray", "Member", "Element", "Get", "EachOf" }

\* C3: every operation on an Invalid Value returns, or stores in its result, the
\* stored error of that Value.
C3_StickyError ==
    (pc = "returned" /\ op.name \in AccessorOps /\ op.recv.err # Nil) =>
        op.res.err = op.recv.err

\* C4: when Unmarshal returns an error, the Value it returns carries that error, and
\* every later operation on that Value returns it.
C4_UnmarshalError ==
    (pc = "returned" /\ uerr # Nil) =>
        IF op.name = "Unmarshal" THEN j.err = uerr
        ELSE (op.name \in AccessorOps /\ op.recv = Unmarshal(data).j) => op.res.err = uerr

\* Member and Element applied for each key, left to right
RECURSIVE Walk(_, _)
Walk(x, keys) ==
    IF Len(keys) = 0 THEN x
    ELSE IF Head(keys).kind = "string" THEN Walk(Member(x, Head(keys).s), Tail(keys))
    ELSE Walk(Element(x, Head(keys).n), Tail(keys))

Supported(k) == k.kind = "string" \/ k.kind \in IntKinds

\* the same tag, payload and error, and the same flags on a Value without an error
SameValue(a, b) ==
    /\ a.tp = b.tp
    /\ a.v = b.v
    /\ a.err = b.err
    /\ a.err = Nil => (a.atoi = b.atoi /\ a.tob = b.tob)

KeyTypeError(k) == << "key type ", k.kind, " not supported" >>

\* the number of keys before the first unsupported one
RECURSIVE SupportedPrefix(_)
SupportedPrefix(keys) ==
    IF Len(keys) = 0 \/ ~Supported(Head(keys)) THEN 0 ELSE 1 + SupportedPrefix(Tail(keys))

\* Get agrees with Member and Element key by key, for every width of integer key
GetWalks(x, keys, r) ==
    /\ Len(keys) = 0 => r = x
    /\ (\A i \in DOMAIN keys : Supported(keys[i])) => SameValue(r, Walk(x, keys))
    /\ \A kind \in IntKinds : \A n \in Indexes :
          (n >= 0 \/ kind \in { "int", "int8", "int16", "int32", "int64" }) =>
              /\ SameValue(Get(x, << IntKey(kind, n) >>), Element(x, n))
              /\ SameValue(Get(x, << StrKey(Bytes(<< "a" >>)), IntKey(kind, n) >>),
                           Element(Member(x, Bytes(<< "a" >>)), n))

\* C5, as stated: Get is Member and Element applied left to right; the first segment
\* that produces an error stops the walk and gives the result's error; a key that is
\* neither a string nor an integer, reached without an earlier segment's error, gives
\* an Invalid Value with a key-type error.
C5_AsStated ==
    Returned("Get") =>
        LET p == SupportedPrefix(op.arg)
            before == Walk(op.recv, Upto(op.arg, p))
        IN  /\ GetWalks(op.recv, op.arg, op.res)
            /\ p < Len(op.arg) =>
                IF p > 0 /\ before.err # Nil
                THEN SameValue(op.res, before)
                ELSE /\ op.res.tp = "INVALID"
                     /\ op.res.err = KeyTypeError(op.arg[p + 1])

\* C5, amended: as C5, but Get with at least one key on a receiver that is already
\* Invalid returns the receiver with its stored error, whatever the keys are.
C5_Get ==
    Returned("Get") =>
        LET p == SupportedPrefix(op.arg)
            before == Walk(op.recv, Upto(op.arg, p))
        IN  /\ GetWalks(op.recv, op.arg, op.res)
            /\ p < Len(op.arg) =>
                IF before.err # Nil
                THEN SameValue(op.res, before)
                ELSE /\ op.res.tp = "INVALID"
                     /\ op.res.err = KeyTypeError(op.arg[p + 1])
            /\ (op.recv.err # Nil /\ Len(op.arg) > 0) => op.res = op.recv

\* Get("a", 1) has returned the element Member("a").Element(1) of the document
C5_Witness ==
    /\ Returned("Get")
    /\ data = DocNested
    /\ op.recv = Unmarshal(DocNested).j
    /\ op.arg = << StrKey(Bytes(<< "a" >>)), IntKey("uint8", 1) >>
    /\ op.res.tp = "STRING"
    /\ op.res.v = VString(Bytes(<< "2" >>))

\* the Number Value whose literal is the text of the String Value x
AsNumber(x) == JsonOf(VNumber(x.v.val), "NUMBER")

\* C6: on a String Value Int and Float fail with the type mismatch (expected NUMBER,
\* found STRING) while string-as-number is not set; once it is set, on the Value or on
\* the Value it was navigated from, they return what they return for the Number whose
\* literal is the string's text; String still returns the text.
C6_StringAsNumber ==
    /\ (Returned("Int") /\ op.recv.tp = "STRING") =>
        IF op.recv.atoi THEN op.res \in Int_(AsNumber(op.recv))
        ELSE op.res.err = TypeMismatch("NUMBER", "STRING")
    /\ (Returned("Float") /\ op.recv.tp = "STRING") =>
        IF op.recv.atoi THEN op.res = Float(AsNumber(op.recv))
        ELSE op.res.err = TypeMismatch("NUMBER", "STRING")
    /\ (Returned("String") /\ op.recv.tp = "STRING") =>
        op.res = [s |-> op.recv.v.val, err |-> Nil]
    /\ Returned("StringAsNumber") =>
        op.res.atoi /\ op.res.v = op.recv.v /\ op.res.tp = op.recv.tp
    /\ (pc = "returned" /\ op.name \in { "Member", "Element", "Get" } /\ op.res.err = Nil) =>
        op.res.atoi = op.recv.atoi

\* Int() on the String "42" with string-as-number set has returned (42, nil)
C6_Witness ==
    /\ Returned("Int")
    /\ op.recv.tp = "STRING"
    /\ op.recv.v.val = Bytes(<< "4", "2" >>)
    /\ op.recv.atoi
    /\ op.res = [i |-> I64(FALSE, << 4, 2 >>), err |-> Nil]

\* C7: Bool on a Bool Value returns its payload; on another tag it fails with the type
\* mismatch (expected BOOL) unless all-as-bool is set, and then String, Array and
\* Object give (length # 0, nil), Number gives (value # 0) with the conversion's
\* error, Null gives (false, nil); Invalid gives its stored error either way.
C7_Bool ==
    Returned("Bool") =>
        LET x == op.recv IN
        IF x.tp = "BOOL" THEN op.res = [b |-> x.v.val, err |-> Nil]
        ELSE IF x.tp = "INVALID"
            THEN op.res.err = IF x.err # Nil THEN x.err ELSE TypeMismatch("BOOL", "INVALID")
        ELSE IF ~x.tob THEN op.res.err = TypeMismatch("BOOL", x.tp)
        ELSE IF x.tp \in { "STRING", "ARRAY" }
            THEN op.res = [b |-> x.v.val # << >>, err |-> Nil]
        ELSE IF x.tp = "OBJECT"
            THEN op.res = [b |-> DOMAIN x.v.val # {}, err |-> Nil]
        ELSE IF x.tp = "NUMBER"
            THEN \E f \in { Float64(x.v.val) } :
                     op.res = [b |-> f.f.mant # << 0 >>, err |-> f.err]
        ELSE op.res = [b |-> FALSE, err |-> Nil]

\* Bool() on the Number 0 with all-as-bool set has returned (false, nil)
C7_Witness ==
    /\ Returned("Bool")
    /\ op.recv.tp = "NUMBER"
    /\ op.recv.v.val = Bytes(<< "0" >>)
    /\ op.recv.tob
    /\ op.res = [b |-> FALSE, err |-> Nil]

\* the value of the decimal f lies outside [-2^63, 2^63 - 1]
OutsideInt64(f) ==
    IF f.neg THEN MagLess(MinInt64Mag, IntPart(f)) ELSE MagLess(MaxInt64Mag, IntPart(f))

\* C8: Int on a Number returns the exact integer of a decimal integer literal within
\* [-2^63, 2^63 - 1]; otherwise it returns the floating-point value truncated toward
\* zero when that fits int64, and an overflow error for every literal whose value
\* does not fit, so that no literal above 2^63 - 1 or below -2^63 gives a nil error.
C8_IntOverflow ==
    (Returned("Int") /\ op.recv.tp = "NUMBER") =>
        \E r \in { Int64(op.recv.v.val) } : \E f \in { Float64(op.recv.v.val) } :
            /\ r.err = Nil => op.res = r
            /\ (r.err # Nil /\ f.err = Nil /\ MagLess(IntPart(f.f), RoundsUpMag)) =>
                op.res = [i |-> I64(f.f.neg, IntPart(f.f)), err |-> Nil]
            /\ (r.err # Nil /\ (f.err # Nil \/ OutsideInt64(f.f))) => op.res.err # Nil

\* the operations of C9
ArrayOps == { "IntArray", "FloatArray", "BoolArray", "StringArray" }

\* what the conversion of the array operation `name` can give for the element e
ElementResults(name, e) ==
    IF name = "IntArray" THEN { [val |-> r.i, err |-> r.err] : r \in Int_(e) }
    ELSE IF name = "FloatArray" THEN { [val |-> r.f, err |-> r.err] : r \in { Float(e) } }
    ELSE IF name = "BoolArray" THEN { [val |-> r.b, err |-> r.err] : r \in { Bool(e) } }
    ELSE { [val |-> r.s, err |-> r.err] : r \in { String(e) } }

\* C9: the array conversions succeed only on an Array whose every element converts,
\* and then return one entry per element, in element order; on a receiver that is no
\* Array, or when an element fails, they return a nil slice with the receiver's error
\* or the error of the first failing element, never a part of the result.
C9_ArrayConversions ==
    (pc = "returned" /\ op.name \in ArrayOps) =>
        LET x == op.recv
            a == x.v.val
        IN  IF x.tp # "ARRAY"
            THEN /\ op.res.isnil /\ op.res.arr = << >>
                 /\ op.res.err = IF x.err # Nil THEN x.err ELSE TypeMismatch("ARRAY", x.tp)
            ELSE \E rs \in { [i \in DOMAIN a |-> ElementResults(op.name, a[i])] } :
                 LET fails(i) == \A r \in rs[i] : r.err # Nil IN
                 IF \E i \in DOMAIN a : fails(i)
                 THEN LET f == CHOOSE i \in DOMAIN a : fails(i) /\ \A k \in 1..(i - 1) : ~fails(k)
                      IN  /\ op.res.isnil /\ op.res.arr = << >>
                          /\ \E r \in rs[f] : op.res.err = r.err
                 ELSE /\ ~op.res.isnil /\ op.res.err = Nil
                      /\ Len(op.res.arr) = Len(a)
                      /\ \A i \in DOMAIN a : \E r \in rs[i] :
                             r.err = Nil /\ op.res.arr[i] = r.val

\* FloatArray() on [1, 2e999, 3] has returned a nil slice and the second element's error
C9_Witness ==
    /\ Returned("FloatArray")
    /\ op.recv = Unmarshal(DocOverflow).j
    /\ op.res.isnil
    /\ op.res.arr = << >>
    /\ op.res.err = Float64(Bytes(<< "2", "e", "9", "9", "9" >>)).err
    /\ op.res.err # Nil

\* the i-th entry of arr has the tag and payload of g
SameEntry(e, g) == e.tp = g.tp /\ e.v = g.v

\* C10: EachOf(keys) on an Array returns an Array of the same length whose i-th
\* element has the tag and payload of Element(i).Get(keys); on an Object an Array
\* with one Get(keys) result per member, in some order; on another tag, or when the
\* Get of an element fails, an Invalid Value with that error and no array.
C10_EachOf ==
    Returned("EachOf") =>
        LET x == op.recv
            keys == op.arg
            r == op.res
        IN  IF x.tp = "ARRAY" THEN
                LET g == [i \in DOMAIN x.v.val |-> Get(Element(x, i - 1), keys)] IN
                IF \E i \in DOMAIN g : g[i].err # Nil
                THEN LET f == CHOOSE i \in DOMAIN g :
                                  g[i].err # Nil /\ \A k \in 1..(i - 1) : g[k].err = Nil
                     IN  r.tp = "INVALID" /\ r.v = VNil /\ r.err = g[f].err
                ELSE /\ r.tp = "ARRAY" /\ r.err = Nil
                     /\ Len(r.v.val) = Len(x.v.val)
                     /\ \A i \in DOMAIN g : SameEntry(r.v.val[i], g[i])
            ELSE IF x.tp = "OBJECT" THEN
                LET g == [k \in DOMAIN x.v.val |-> Get(Member(x, k), keys)] IN
                IF \E k \in DOMAIN g : g[k].err # Nil
                THEN /\ r.tp = "INVALID" /\ r.v = VNil
                     /\ \E k \in DOMAIN g : g[k].err # Nil /\ r.err = g[k].err
                ELSE /\ r.tp = "ARRAY" /\ r.err = Nil
                     /\ \E p \in Orders(DOMAIN g) :
                            /\ Len(r.v.val) = Len(p)
                            /\ \A i \in DOMAIN p : SameEntry(r.v.val[i], g[p[i]])
            ELSE r.tp = "INVALID" /\ r.v = VNil /\ r.err # Nil

\* EachOf("a") on [{"a":1},{"a":2}] has returned the Array [1, 2]
C10_Witness ==
    /\ Returned("EachOf")
    /\ op.recv = Unmarshal(DocIds).j
    /\ op.arg = << StrKey(Bytes(<< "a" >>)) >>
    /\ op.res.tp = "ARRAY"
    /\ Len(op.res.v.val) = 2
    /\ op.res.v.val[2].v = VNumber(Bytes(<< "2" >>))

\* C17: jsonskip(b) succeeds exactly when parse(b) succeeds, and then both report
\* the same number of bytes consumed, with or without leading whitespace.
C17_SkipParseSymmetry ==
    Returned("jsonskip") =>
        \E r \in { parse(data) } :
            /\ op.res.err = Nil <=> (~r.panic /\ r.err = Nil)
            /\ (~r.panic /\ r.err = Nil /\ op.res.err = Nil) => op.res.i = r.i

\* the offset, within p, up to which the sub-parser chosen by p[0] got
Progress(p) ==
    IF At(p, 0) = Ord["{"] THEN parseObject(p).i
    ELSE IF At(p, 0) = Ord["["] THEN parseArray(p).i
    ELSE IF At(p, 0) = Ord["\""] THEN parseString(p).i
    ELSE 0

\* C18: the bytesConsumed of parse lies within 0..len(bytes); on success it is the
\* offset just past the parsed value; on failure it is the offset of the failure
\* point, the progress made inside an object, array or string included.
C18_BytesConsumed ==
    Returned("parse") =>
        /\ op.res.i \in 0..Len(data)
        /\ op.res.err = Nil => op.res.i = FirstValueEnd(data)
        /\ op.res.err # Nil =>
            op.res.i >= skipSpace(data) + Progress(From(data, skipSpace(data)))

\* C14: no input is fatal: for every byte sequence, the empty one and those of
\* whitespace only included, a call of Unmarshal returns to its caller, with a Json
\* or with an error that is not nil; it never panics.
C14_NoFatalInput ==
    op.name = "Unmarshal" =>
        /\ pc # "panic"
        /\ uerr # Nil \/ j.err = Nil

\* the tag of the aggregate that opens with byte c
AggregateOf(c) == IF c = Ord["["] THEN "ARRAY" ELSE "OBJECT"

\* C15: the parser implements the grammar of aggregates: a text whose first token is
\* '[' or '{' is accepted by Unmarshal, and yields an Array or an Object, when it is an
\* aggregate of the grammar (members and elements separated by ',', whitespace
\* allowed between any two tokens), and is rejected with an error when it is not
\* (trailing comma, missing colon, missing comma, missing closing bracket).
C15_AggregateGrammar ==
    (/\ Returned("Unmarshal")
     /\ WsEnd(data, 0) < Len(data)
     /\ At(data, WsEnd(data, 0)) \in { Ord["["], Ord["{"] }) =>
        /\ WellFormed(data) => uerr = Nil /\ j.tp = AggregateOf(At(data, WsEnd(data, 0)))
        /\ FirstValueEnd(data) < 0 => uerr # Nil

RECURSIVE MemberTexts(_, _)
\* the members of a well-formed object text b, in text order, from the name literal
\* at offset i on: each member's name and the text of its value
MemberTexts(b, i) ==
    LET n == StringEnd(b, i)
        s == WsEnd(b, WsEnd(b, n) + 1)
        e == ValueEnd(b, s)
        k == WsEnd(b, e)
    IN  << [name |-> parseString(From(b, i)).s, value |-> Upto(From(b, s), e - s)] >>
        \o (IF At(b, k) = Ord[","] THEN MemberTexts(b, WsEnd(b, k + 1)) ELSE << >>)

\* the members of the well-formed text b when it is an object, else none
TopMembers(b) ==
    IF ~WellFormed(b) \/ At(b, WsEnd(b, 0)) # Ord["{"] THEN << >>
    ELSE IF At(b, WsEnd(b, WsEnd(b, 0) + 1)) = Ord["}"] THEN << >>
    ELSE MemberTexts(b, WsEnd(b, WsEnd(b, 0) + 1))

MemberNames(ms) == { ms[i].name : i \in DOMAIN ms }

\* a name occurs twice in ms
Repeats(ms) == Cardinality(MemberNames(ms)) < Len(ms)

\* the text of the value of the last member of ms called name
LastOf(ms, name) ==
    ms[CHOOSE i \in DOMAIN ms : ms[i].name = name /\ \A k \in DOMAIN ms : ms[k].name = name => k <= i].value

\* x is the Object that binds each name of ms once, to the value of its last member
BindsLast(x, ms) ==
    /\ x.tp = "OBJECT"
    /\ x.v.kind = "map[string]Json"
    /\ DOMAIN x.v.val = MemberNames(ms)
    /\ \A name \in MemberNames(ms) : x.v.val[name] = parse(LastOf(ms, name)).j

\* C16: object keys are unique after parsing: for an object text that repeats a member
\* name, Unmarshal reports no error and the Object holds every name once, bound to the
\* value of its last occurrence; Len() counts every name once, and Keys() lists it once.
C16_UniqueKeys ==
    (pc = "returned" /\ op.name \in { "Unmarshal", "Len", "Keys" }) =>
    \E ms \in { TopMembers(data) } :
        Repeats(ms) =>
            /\ Returned("Unmarshal") => uerr = Nil /\ BindsLast(j, ms)
            /\ (Returned("Len") /\ BindsLast(op.recv, ms)) =>
                   op.res = [n |-> Cardinality(MemberNames(ms)), err |-> Nil]
            /\ (Returned("Keys") /\ BindsLast(op.recv, ms)) =>
                   /\ op.res.err = Nil
                   /\ Len(op.res.keys) = Cardinality(MemberNames(ms))
                   /\ { op.res.keys[i] : i \in DOMAIN op.res.keys } = MemberNames(ms)

\* Len() has returned on the Object decoded from a text that repeats a name
C16_Witness ==
    /\ Repeats(TopMembers(data))
    /\ Returned("Len")
    /\ BindsLast(op.recv, TopMembers(data))
    /\ op.res.n < Len(TopMembers(data))

\* x with the string-as-number flag set to a and the all-as-bool flag set to t
WithFlags(x, a, t) == [x EXCEPT !.atoi = a, !.tob = t]

\* the tag, payload and error of x
Outcome(x) == [tp |-> x.tp, v |-> x.v, err |-> x.err]

\* Type, Len, Keys, Member and Element return the same on x as on y
SameStructure(x, y) ==
    /\ Type_(x) = Type_(y)
    /\ Len_(x) = Len_(y)
    /\ Keys(x) = Keys(y)
    /\ \A name \in Names : Outcome(Member(x, name)) = Outcome(Member(y, name))
    /\ \A i \in Indexes : Outcome(Element(x, i)) = Outcome(Element(y, i))

\* C12: the two mode flags never affect Type, Len, Keys, Member or Element: on the
\* Json the caller holds, each of them returns the same tag, payload and error under
\* every one of the four flag settings; and a second StringAsNumber() or AllAsBool()
\* leaves the Json exactly as the first call left it.
C12_FlagsFrame ==
    /\ pc = "returned" =>
           \A a, t \in BOOLEAN : SameStructure(WithFlags(j, a, t), WithFlags(j, FALSE, FALSE))
    /\ Returned("StringAsNumber") => StringAsNumber(j) = j
    /\ Returned("AllAsBool") => AllAsBool(j) = j

\* Member has returned a String on a Json with both flags set: the flags change what
\* Int and Bool return on it, and leave its structure alone
C12_Witness ==
    /\ Returned("Member")
    /\ op.recv.atoi /\ op.recv.tob
    /\ op.res.tp = "STRING"
    /\ Bool(j) # Bool(WithFlags(j, FALSE, FALSE))

NavigationOps == { "Member", "Element", "Get", "EachOf" }

\* C13: the mode flags are copied at every navigation step: a Json that Member,
\* Element, Get or EachOf produces without an error carries the string-as-number and
\* all-as-bool settings of the receiver it was produced from.
C13_FlagsCopied ==
    (/\ pc = "returned"
     /\ op.name \in NavigationOps
     /\ op.res.err = Nil) =>
        /\ op.res.atoi = op.recv.atoi
        /\ op.res.tob = op.recv.tob

RECURSIVE BackslashesBefore(_, _)
\* the length of the run of backslashes that ends just before offset k of b, the
\* opening quote at offset 0 left out
BackslashesBefore(b, k) ==
    IF k > 1 /\ At(b, k - 1) = Ord["\\"] THEN 1 + BackslashesBefore(b, k - 1) ELSE 0

\* the offsets after the opening quote of the quotes of b that are not escaped
ClosingQuotes(b) ==
    { k \in 1..(Len(b) - 1) : At(b, k) = Ord["\""] /\ BackslashesBefore(b, k) % 2 = 0 }

FirstOf(S) == CHOOSE k \in S : \A n \in S : k <= n

\* C19: on a text that opens with a quote, string scanning ends the literal at the
\* first later quote that an even number of backslashes precedes: it consumes up to
\* and including that quote and returns the unquoted literal, or stops on that quote
\* when the literal does not unquote; when there is no such quote it fails with the
\* end-of-string error.
C19_StringScan ==
    (Returned("parseString") /\ At(data, 0) = Ord["\""]) =>
        \E Q \in { ClosingQuotes(data) } :
            IF Q = {} THEN op.res.err = << "STRING: end of string err" >>
            ELSE \/ /\ op.res.err = Nil
                    /\ op.res.i = FirstOf(Q) + 1
                    /\ op.res.s = unquote(Upto(data, FirstOf(Q) + 1)).t
                 \/ /\ op.res.err = << "STRING: unquote err" >>
                    /\ op.res.i = FirstOf(Q)
                    /\ ~unquote(Upto(data, FirstOf(Q) + 1)).ok

\* a literal was scanned past an escaped quote and past a pair of backslashes to its
\* closing quote
C19_Witness ==
    /\ Returned("parseString")
    /\ op.res.err = Nil
    /\ \E k \in 1..(op.res.i - 2) : At(data, k) = Ord["\""] /\ BackslashesBefore(data, k) = 1
    /\ BackslashesBefore(data, op.res.i - 1) = 2

\* the character each standard one-character escape stands for
StandardEscapes ==
    << [c |-> Ord["\""], r |-> Ord["\""]], [c |-> Ord["\\"], r |-> Ord["\\"]],
       [c |-> Ord["/"], r |-> Ord["/"]], [c |-> Ord["b"], r |-> 8], [c |-> Ord["f"], r |-> 12],
       [c |-> Ord["n"], r |-> 10], [c |-> Ord["r"], r |-> 13], [c |-> Ord["t"], r |-> 9] >>

\* the code unit of the \uXXXX escape at offset r of s, or -1 when there is none
CodeUnit(s, r) ==
    IF r + 5 < Len(s) /\ At(s, r) = Ord["\\"] /\ At(s, r + 1) = Ord["u"]
       /\ \A k \in 2..5 : IsHex(At(s, r + k))
    THEN HexVal(At(s, r + 2)) * 4096 + HexVal(At(s, r + 3)) * 256
         + HexVal(At(s, r + 4)) * 16 + HexVal(At(s, r + 5))
    ELSE -1

IsHigh(u) == u >= 55296 /\ u <= 56319
IsLow(u) == u >= 56320 /\ u <= 57343

RECURSIVE Unescaped(_, _)
\* the code points the bytes of s stand for from offset r on, up to the closing quote
\* that ends s; << -1 >> when an escape is none of the standard ones
Unescaped(s, r) ==
    LET rest(n, points) ==
            LET after(t) == IF t = << -1 >> THEN t ELSE points \o t IN after(Unescaped(s, r + n))
    IN  IF r >= Len(s) - 1 THEN << >>
        ELSE IF At(s, r) # Ord["\\"] THEN rest(1, << At(s, r) >>)
        ELSE IF \E e \in DOMAIN StandardEscapes : StandardEscapes[e].c = At(s, r + 1)
            THEN rest(2, << StandardEscapes[CHOOSE e \in DOMAIN StandardEscapes :
                                               StandardEscapes[e].c = At(s, r + 1)].r >>)
        ELSE IF CodeUnit(s, r) < 0 THEN << -1 >>
        ELSE IF IsHigh(CodeUnit(s, r)) /\ IsLow(CodeUnit(s, r + 6))
            THEN rest(12, << 65536 + (CodeUnit(s, r) - 55296) * 1024 + (CodeUnit(s, r + 6) - 56320) >>)
        ELSE IF IsHigh(CodeUnit(s, r)) \/ IsLow(CodeUnit(s, r))
            THEN rest(6, << ReplacementChar >>)
        ELSE rest(6, << CodeUnit(s, r) >>)

RECURSIVE Utf8(_)
\* the UTF-8 bytes of a sequence of code points
Utf8(points) == IF points = << >> THEN << >> ELSE EncodeRune(Head(points)) \o Utf8(Tail(points))

\* C20: unescaping decodes exactly the standard escapes and \uXXXX and fails on any
\* other escaped character; a high surrogate followed at once by a low one decodes to
\* the one combined code point, and a surrogate without a valid partner decodes to
\* U+FFFD, without failing and without consuming the escape that follows it.
C20_Unescape ==
    (Returned("unquote") /\ data \in EscapeDocs) =>
        \E points \in { Unescaped(data, 1) } :
            /\ op.res.ok <=> points # << -1 >>
            /\ op.res.ok => op.res.t = Utf8(points)

\* nil, the trailing-data error, or another error
ErrorClass(err) == IF err = Nil \/ err = ErrMoreBytes THEN err ELSE << "error" >>

\* C11: path-guided decoding agrees with full decoding: Unmarshal(data, keys...)
\* returns what Unmarshal(data) followed by Get(keys...) returns: the same error
\* (nil, the trailing-data error, or a syntax error) and, without a syntax error, the
\* same tag, payload and navigation error (Null for an absent member or index, a type
\* mismatch for a key of the wrong kind).
C11_PathDecode ==
    Returned("UnmarshalPath") =>
        \E full \in { Unmarshal(data) } :
            /\ ~full.panic
            /\ ErrorClass(uerr) = ErrorClass(full.err)
            /\ ErrorClass(uerr) \in { Nil, ErrMoreBytes } =>
                   Outcome(j) = Outcome(Get(full.j, op.arg))

\* C22: whole-array conversion agrees with element-wise conversion under every flag
\* setting: on an Array a, IntArray (FloatArray, BoolArray, StringArray) succeeds
\* exactly when Element(i).Int() (Float(), Bool(), String()) succeeds for every index
\* i of a, and then returns the values those calls return.
C22_ElementWise ==
    (pc = "returned" /\ op.name \in ArrayOps /\ op.recv.v.kind = "[]Json") =>
        \E rs \in { [i \in 1..Len(op.recv.v.val) |->
                        ElementResults(op.name, Element(op.recv, i - 1))] } :
            /\ op.res.err = Nil <=> \A i \in DOMAIN rs : \E r \in rs[i] : r.err = Nil
            /\ op.res.err = Nil =>
                   /\ Len(op.res.arr) = Len(rs)
                   /\ \A i \in DOMAIN rs : \E r \in rs[i] : r.err = Nil /\ op.res.arr[i] = r.val

\* the operations that return a Json
ValueOps == { "Unmarshal", "DecodeFrom", "Member", "Element", "Get", "EachOf" }

\* C23: every Json that Unmarshal, DecodeFrom, Member, Element, Get or EachOf returns
\* has the tag INVALID exactly when its error is not nil, and an Invalid Json has a nil
\* payload; so DecodeFrom, when the read fails, does not return an Invalid Json
\* together with a nil error.
C23_TagError ==
    (pc = "returned" /\ op.name \in ValueOps) =>
        /\ Type_(j) = "INVALID" <=> j.err # Nil
        /\ Type_(j) = "INVALID" => j.v = VNil
        /\ (op.name = "DecodeFrom" /\ op.arg # Nil) => ~(Type_(j) = "INVALID" /\ uerr = Nil)

\* C21: a Json never aliases mutable state back to the Json it came from: after
\* StringAsNumber() or AllAsBool() is called on an entry of the slice that Array()
\* returned for p, IntArray, FloatArray and BoolArray on p return what they returned
\* before the call.
C21_NoAliasing ==
    (pc = "returned" /\ op.name \in { "Array.StringAsNumber", "Array.AllAsBool" }) =>
        /\ IntArray(j) = IntArray(op.recv)
        /\ FloatArray(j) = FloatArray(op.recv)
        /\ BoolArray(j) = BoolArray(op.recv)

\* what the function f returns on b: the position, and whether the error is not nil
Outcome24(f, b) ==
    LET of(r) == [i |-> r.i, failed |-> r.err # Nil]
    IN  IF f = "parseObject" THEN of(parseObject(b))
        ELSE IF f = "parseArray" THEN of(parseArray(b))
        ELSE IF f = "jsonskipObject" THEN of(jsonskipObject(b))
        ELSE of(jsonskipArray(b))

\* b holds no byte that closes the aggregate of f
Unclosed(f, b) ==
    \A k \in 1..Len(b) : b[k] # (IF OnObject(f) THEN Ord["}"] ELSE Ord["]"])

\* C24: parsing and skipping always terminate: in parseObject, parseArray,
\* jsonskipObject and jsonskipArray every loop iteration that does not return moves the
\* position strictly forward, the position never exceeds the length of the input,
\* and on an aggregate without its closing bracket the function returns an error,
\* at the latest when the input is exhausted.
C24_Termination ==
    /\ pc = "loop" =>
           /\ op.i > op.from
           /\ op.i <= Len(data)
    /\ (pc = "returned" /\ op.name \in LoopFns) =>
           /\ op.i >= op.from
           /\ op.i <= Len(data)
           /\ Unclosed(op.name, data) => op.failed
           /\ [i |-> op.i, failed |-> op.failed] = Outcome24(op.name, data)

\* parseArray has come to the end of an array of two elements that is not closed, one
\* iteration after the other, and returns an error there
C24_Witness ==
    /\ pc = "returned"
    /\ op.name = "parseArray"
    /\ op.state = stateDone
    /\ op.failed
    /\ op.i = Len(data)
    /\ op.from = op.i
    /\ data = DocOpen

====
